---- MODULE Spec2Model ----
(***************************************************************************)
(* Model of the advertisement pipeline: the stage functions               *)
(* normalize_ads, enrich_ads and rank_ads, the extraction entry point      *)
(* fetch_ads_data and the local orchestrator run_pipeline.                 *)
(*                                                                         *)
(* Python values are tagged records [t |-> type, v |-> payload]; a dict is *)
(* a function from its keys.  A file is a sequence of lines; a line of a   *)
(* JSONL file is a JSON document in abstract syntax, or text that is not   *)
(* JSON at all.  Hours are counted in hundredths, scores in thousandths.   *)
(***************************************************************************)
EXTENDS Integers, Sequences, FiniteSets, TLC

VARIABLES
    fs,          \* existing files: path -> sequence of lines
    dirs,        \* existing directories
    now,         \* the wall clock read by datetime.now()
    detector,    \* what the external langdetect.detect does in this run
    token,       \* the ACCESS_TOKEN environment variable
    api,         \* what the remote ads API answers in this run
    driver,      \* who calls the stages: the test harness or run_pipeline
    stage,       \* the stage function being executed ("none" when idle)
    pc,          \* position inside the stage function
    input_path,  \* its input_path argument
    output_path, \* its output_path argument after defaulting
    line_num,    \* number of input lines consumed by the per-line loop
    buffer,      \* normalized_data / enriched_data / ads_data
    stats,       \* the stage's statistics dictionary
    outcome,     \* how the last stage call ended
    calls,       \* the stage calls made so far, in order
    exit_code,   \* process exit status of run_pipeline (-1 while running)
    session      \* the Airflow metadata database the cleanup script works on

vars == <<fs, dirs, now, detector, token, api, driver, stage, pc, input_path,
          output_path, line_num, buffer, stats, outcome, calls, exit_code,
          session>>

----------------------------------------------------------------------------
(* Bounds of the model *)

MaxLines == 3      \* longest input file the harness hands to a stage
MaxClock == 9      \* the clock stops advancing here
MockCount == 2     \* number of ads the mock generator is asked for

----------------------------------------------------------------------------
(* Python values *)

PyNone == [t |-> "None"]
PyStr(s) == [t |-> "str", v |-> s]
PyInt(n) == [t |-> "int", v |-> n]
PyFloat(h) == [t |-> "float", v |-> h]
PyList(q) == [t |-> "list", v |-> q]
PyDict(d) == [t |-> "dict", v |-> d]
PyDatetime(n) == [t |-> "datetime", v |-> n]

EmptyDict == [k \in {} |-> PyNone]

\* dict.get(key, default)
Get(d, key, default) == IF key \in DOMAIN d THEN d[key] ELSE default

Ok(val) == [ok |-> TRUE, val |-> val]
Raise(exc) == [ok |-> FALSE, exc |-> exc]

----------------------------------------------------------------------------
(* Text *)

Digits == {"0", "1", "2", "3", "4", "5", "6", "7", "8", "9"}

CharAt(s, i) == SubSeq(s, i, i)

IsDigit(c) == c \in Digits

IsSpace(c) == c \in {" ", "\t", "\n"}

Lower(c) ==
    CASE c = "H" -> "h"
      [] c = "R" -> "r"
      [] c = "S" -> "s"
      [] c = "M" -> "m"
      [] c = "I" -> "i"
      [] c = "N" -> "n"
      [] OTHER -> c

DigitVal(c) ==
    CASE c = "0" -> 0 [] c = "1" -> 1 [] c = "2" -> 2 [] c = "3" -> 3
      [] c = "4" -> 4 [] c = "5" -> 5 [] c = "6" -> 6 [] c = "7" -> 7
      [] c = "8" -> 8 [] c = "9" -> 9

DigitChar(n) ==
    CASE n = 0 -> "0" [] n = 1 -> "1" [] n = 2 -> "2" [] n = 3 -> "3"
      [] n = 4 -> "4" [] n = 5 -> "5" [] n = 6 -> "6" [] n = 7 -> "7"
      [] n = 8 -> "8" [] n = 9 -> "9"

RECURSIVE IntToStr(_)
IntToStr(n) == IF n < 10 THEN DigitChar(n)
               ELSE IntToStr(n \div 10) \o DigitChar(n % 10)

RECURSIVE StrToInt(_)
StrToInt(s) == IF Len(s) = 0 THEN 0
               ELSE 10 * StrToInt(SubSeq(s, 1, Len(s) - 1))
                    + DigitVal(CharAt(s, Len(s)))

RECURSIVE Repeat(_, _)
\* s * n
Repeat(s, n) == IF n = 0 THEN ""
                ELSE IF n % 2 = 0
                     THEN LET half == Repeat(s, n \div 2) IN half \o half
                     ELSE s \o Repeat(s, n - 1)

AllDigits(s) == \A i \in 1..Len(s) : IsDigit(CharAt(s, i))

\* str.strip() == "": the text holds nothing but whitespace
IsBlank(s) == \A i \in 1..Len(s) : IsSpace(CharAt(s, i))

----------------------------------------------------------------------------
(* utils/enricher.py *)

FloatMaxDigits == 309   \* sys.float_info.max has 309 decimal digits

Min(S) == CHOOSE x \in S : \A y \in S : x <= y

\* index just past the run of digits that starts at i
DigitRunEnd(s, i) ==
    Min({j \in i..(Len(s) + 1) : j = Len(s) + 1 \/ ~IsDigit(CharAt(s, j))})

\* index just past the run of whitespace that starts at i
SpaceRunEnd(s, i) ==
    Min({j \in i..(Len(s) + 1) : j = Len(s) + 1 \/ ~IsSpace(CharAt(s, j))})

\* faulty variant: the initial letter alone decides, so "hours" counts as hr
UnitAt_initialOnly(s, k, unit) ==
    /\ k <= Len(s)
    /\ Lower(CharAt(s, k)) = CharAt(unit, 1)

\* the literal unit follows at index k, ignoring case
UnitAt(s, k, unit) ==
    /\ k + Len(unit) - 1 <= Len(s)
    /\ \A j \in 1..Len(unit) : Lower(CharAt(s, k + j - 1)) = CharAt(unit, j)

\* (\d+)\s*<unit> matches with the greedy digit run that starts at i
MatchesAt(s, i, unit) ==
    /\ IsDigit(CharAt(s, i))
    /\ UnitAt(s, SpaceRunEnd(s, DigitRunEnd(s, i)), unit)

\* re.search(r"(\d+)\s*<unit>s?", text, re.IGNORECASE): the leftmost match.
\* A match that starts inside a run of digits implies one at the start of
\* the run, so only starts of runs are candidates.
MatchStarts(s, unit) ==
    {i \in 1..Len(s) : /\ IsDigit(CharAt(s, i))
                       /\ (i = 1 \/ ~IsDigit(CharAt(s, i - 1)))
                       /\ MatchesAt(s, i, unit)}

\* match.group(1), or "" when re.search returns None
ReSearchGroup(s, unit) ==
    IF MatchStarts(s, unit) = {} THEN ""
    ELSE LET i == Min(MatchStarts(s, unit))
         IN  SubSeq(s, i, DigitRunEnd(s, i) - 1)

\* number of digits of int(digits): leading zeros do not count
SignificantDigits(digits) ==
    LET nonzero == {j \in 1..Len(digits) : CharAt(digits, j) # "0"}
    IN  IF nonzero = {} THEN 0 ELSE Len(digits) - Min(nonzero) + 1

\* int + float and int / float raise OverflowError when the int exceeds the
\* largest float; every int of more than FloatMaxDigits digits does.
IntTooLargeForFloat(digits) == SignificantDigits(digits) > FloatMaxDigits

\* round(hours + minutes / 60.0, 2) in hundredths of an hour
RoundedHours(hours, minutes) == hours * 100 + (minutes * 10 + 3) \div 6

\* parse_duration(text): Ok(hundredths of hours) or the exception it raises
parse_duration(text) ==
    IF text.t = "None" \/ text.v = "" THEN Ok(0)
    ELSE LET h == ReSearchGroup(text.v, "hr")
             m == ReSearchGroup(text.v, "min")
         IN  IF IntTooLargeForFloat(h) \/ IntTooLargeForFloat(m)
             THEN Raise("OverflowError")
             ELSE Ok(RoundedHours(StrToInt(h), StrToInt(m)))

\* faulty variant: the first tag of the list decides alone
get_media_type_firstTag(media_list) ==
    IF media_list.t = "None" \/ media_list.v = <<>> THEN "none"
    ELSE IF media_list.v[1] = PyStr("image") THEN "image-only"
    ELSE IF media_list.v[1] = PyStr("video") THEN "video-only"
    ELSE "none"

\* get_media_type(media_list)
get_media_type(media_list) ==
    IF media_list.t = "None" \/ media_list.v = <<>> THEN "none"
    ELSE LET media_set == {media_list.v[i] : i \in 1..Len(media_list.v)}
         IN  IF PyStr("image") \in media_set /\ PyStr("video") \in media_set
             THEN "both"
             ELSE IF PyStr("image") \in media_set THEN "image-only"
             ELSE IF PyStr("video") \in media_set THEN "video-only"
             ELSE "none"

\* langdetect.detect returns a language code, raises LangDetectException
\* or raises something else.
LanguageCodes == {"en"}
DetectOutcomes == LanguageCodes \cup {"LangDetectException", "Exception"}

\* faulty variant: the text is handed to the detection whatever it holds
detect_language_unguarded(text, det) ==
    IF det \in LanguageCodes THEN det ELSE "unknown"

\* detect_language(text), det being the behaviour of langdetect.detect
detect_language(text, det) ==
    IF text = "" \/ IsBlank(text) THEN "unknown"
    ELSE IF det \in LanguageCodes THEN det
    ELSE "unknown"

----------------------------------------------------------------------------
(* utils/json_encoder.py and the json module *)

IsoPrefix == "2024-01-01T"

\* datetime.isoformat()
IsoFormat(n) == IsoPrefix \o IntToStr(n)

IsIsoText(s) ==
    /\ Len(s) > Len(IsoPrefix)
    /\ SubSeq(s, 1, Len(IsoPrefix)) = IsoPrefix
    /\ AllDigits(SubSeq(s, Len(IsoPrefix) + 1, Len(s)))

\* the datetime an ISO-8601 text denotes
ParseIso(s) == StrToInt(SubSeq(s, Len(IsoPrefix) + 1, Len(s)))

\* DateTimeEncoder.default applied by json.dumps to the values of a record
EncodeValue(x) == IF x.t = "datetime" THEN PyStr(IsoFormat(x.v)) ELSE x

\* json.dumps(item, cls=DateTimeEncoder): one line of a JSONL file
JsonDumps(item) ==
    [wf |-> TRUE, val |-> PyDict([k \in DOMAIN item |-> EncodeValue(item[k])])]

\* text that is not JSON at all
Garbage == [wf |-> FALSE, val |-> PyNone]

\* json.loads(line)
JsonLoads(line) == IF line.wf THEN Ok(line.val) ELSE Raise("JSONDecodeError")

----------------------------------------------------------------------------
(* schemas/ads.py: pydantic validation *)

IsStr(x) == x.t = "str"

IsOptionalStr(x) == x.t \in {"str", "None"}

IsStrList(x) == /\ x.t = "list"
                /\ \A i \in 1..Len(x.v) : IsStr(x.v[i])

\* a datetime field takes a datetime or an ISO-8601 text
IsDatetimeInput(x) == \/ x.t = "datetime"
                      \/ (x.t = "str" /\ IsIsoText(x.v))

ToDatetime(x) == IF x.t = "datetime" THEN x ELSE PyDatetime(ParseIso(x.v))

\* a float field takes a float or an int
IsFloatInput(x) == x.t \in {"float", "int"}

ToFloat(x) == IF x.t = "float" THEN x ELSE PyFloat(x.v * 100)

\* AdNormalizedSchema(**kw).model_dump(), clock being datetime.now()
AdNormalizedSchema(kw, clock) ==
    IF /\ "ad_id" \in DOMAIN kw /\ IsStr(kw["ad_id"])
       /\ "ad_text" \in DOMAIN kw /\ IsStr(kw["ad_text"])
       /\ ("active" \in DOMAIN kw => IsOptionalStr(kw["active"]))
       /\ ("media" \in DOMAIN kw => IsStrList(kw["media"]))
       /\ "country" \in DOMAIN kw /\ IsStr(kw["country"])
       /\ ("normalized_at" \in DOMAIN kw => IsDatetimeInput(kw["normalized_at"]))
    THEN Ok([ad_id |-> kw["ad_id"],
             ad_text |-> kw["ad_text"],
             active |-> Get(kw, "active", PyNone),
             media |-> Get(kw, "media", PyList(<<>>)),
             country |-> kw["country"],
             normalized_at |->
                 ToDatetime(Get(kw, "normalized_at", PyDatetime(clock)))])
    ELSE Raise("ValidationError")

\* AdEnrichedSchema(**kw).model_dump(), clock being datetime.now()
AdEnrichedSchema(kw, clock) ==
    IF /\ "ad_id" \in DOMAIN kw /\ IsStr(kw["ad_id"])
       /\ "ad_text" \in DOMAIN kw /\ IsStr(kw["ad_text"])
       /\ ("active" \in DOMAIN kw => IsOptionalStr(kw["active"]))
       /\ ("media" \in DOMAIN kw => IsStrList(kw["media"]))
       /\ "country" \in DOMAIN kw /\ IsStr(kw["country"])
       /\ "duration_hours" \in DOMAIN kw /\ IsFloatInput(kw["duration_hours"])
       /\ "media_type" \in DOMAIN kw /\ IsStr(kw["media_type"])
       /\ ("language" \in DOMAIN kw => IsOptionalStr(kw["language"]))
       /\ ("enriched_at" \in DOMAIN kw => IsDatetimeInput(kw["enriched_at"]))
    THEN Ok([ad_id |-> kw["ad_id"],
             ad_text |-> kw["ad_text"],
             active |-> Get(kw, "active", PyNone),
             media |-> Get(kw, "media", PyList(<<>>)),
             country |-> kw["country"],
             duration_hours |-> ToFloat(kw["duration_hours"]),
             media_type |-> kw["media_type"],
             language |-> Get(kw, "language", PyStr("unknown")),
             enriched_at |->
                 ToDatetime(Get(kw, "enriched_at", PyDatetime(clock)))])
    ELSE Raise("ValidationError")

\* Schema(**json.loads(line)): unpacking anything but a dict is a TypeError
Unpack(Schema(_, _), parsed, clock) ==
    IF parsed.t = "dict" THEN Schema(parsed.v, clock) ELSE Raise("TypeError")

----------------------------------------------------------------------------
(* Paths, files and the shared shape of a stage function *)

Path(dir, name) == [dir |-> dir, name |-> name]

\* output_path=None
NoPath == Path("", "")

\* the timestamped default output path of a stage
DefaultOutput(s, clock) ==
    CASE s = "extract" ->
             Path("data/bronze", "ads_raw_" \o IntToStr(clock) \o ".jsonl")
      [] s = "normalize" ->
             Path("data/silver", "ads_normalized_" \o IntToStr(clock) \o ".jsonl")
      [] s = "enrich" ->
             Path("data/gold", "ads_enriched_" \o IntToStr(clock) \o ".jsonl")
      [] s = "rank" ->
             Path("data/gold", "top10_ads_" \o IntToStr(clock) \o ".csv")

\* open(path): the lines of the file, or FileNotFoundError
OpenForRead(files, path) ==
    IF path \in DOMAIN files THEN Ok(files[path])
    ELSE Raise("FileNotFoundError")

\* faulty variant: a writer that creates no file when there is nothing to write
WriteFile_skipEmpty(files, path, content) ==
    IF content = <<>> THEN files ELSE (path :> content) @@ files

\* open(path, "w") followed by the writes: the file holds content only
WriteFile(files, path, content) == (path :> content) @@ files

\* faulty variant: every exception of the stage, FileNotFoundError included,
\* leaves wrapped in RuntimeError
StageException_wrapAll(exc) == "RuntimeError"

\* the except clauses of a stage function: FileNotFoundError is re-raised,
\* anything else is wrapped in RuntimeError
StageException(exc) ==
    IF exc = "FileNotFoundError" THEN "FileNotFoundError" ELSE "RuntimeError"

Returned(path) == [kind |-> "returned", value |-> path]
Raised(exc) == [kind |-> "raised", exc |-> exc]
Running == [kind |-> "running"]
NotCalled == [kind |-> "none"]

\* datetime.now() moves on between two stage calls
Tick(clock) == IF clock < MaxClock THEN clock + 1 ELSE clock

\* model.model_dump() as a Python dict, or the exception of the constructor
Dumped(r) == IF r.ok THEN Ok(PyDict(r.val)) ELSE r

\* truth value of what a per-record transform returned
Truthy(x) == IF x.t = "None" THEN FALSE
             ELSE IF x.t = "dict" THEN DOMAIN x.v # {}
             ELSE TRUE

----------------------------------------------------------------------------
(* normalize/normalize_ads.py *)

\* faulty variant: ad_id has no default, so a payload without it fails
\* validation
NormalizeMockRecord_requireId(raw_data, clock) ==
    IF raw_data.t # "dict" THEN Raise("AttributeError")
    ELSE Dumped(AdNormalizedSchema(
             [ad_id |-> Get(raw_data.v, "ad_id", PyNone),
              ad_text |-> Get(raw_data.v, "ad_text", PyStr("")),
              active |-> Get(raw_data.v, "active", PyNone),
              media |-> Get(raw_data.v, "media", PyList(<<>>)),
              country |-> Get(raw_data.v, "country", PyStr(""))], clock))

\* _normalize_mock_record(raw_data)
NormalizeMockRecord(raw_data, clock) ==
    IF raw_data.t # "dict" THEN Raise("AttributeError")
    ELSE Dumped(AdNormalizedSchema(
             [ad_id |-> Get(raw_data.v, "ad_id", PyStr("")),
              ad_text |-> Get(raw_data.v, "ad_text", PyStr("")),
              active |-> Get(raw_data.v, "active", PyNone),
              media |-> Get(raw_data.v, "media", PyList(<<>>)),
              country |-> Get(raw_data.v, "country", PyStr(""))], clock))

\* faulty variant: country is taken from the payload when it is there
NormalizeApiRecord_copyCountry(raw_data, clock) ==
    IF raw_data.t # "dict" THEN Raise("AttributeError")
    ELSE Dumped(AdNormalizedSchema(
             [ad_id |-> Get(raw_data.v, "id", PyStr("")),
              ad_text |-> Get(raw_data.v, "ad_creative_body", PyStr("")),
              active |-> PyNone,
              media |-> PyList(<<>>),
              country |-> Get(raw_data.v, "country", PyStr("US"))], clock))

\* _normalize_api_record(raw_data)
NormalizeApiRecord(raw_data, clock) ==
    IF raw_data.t # "dict" THEN Raise("AttributeError")
    ELSE Dumped(AdNormalizedSchema(
             [ad_id |-> Get(raw_data.v, "id", PyStr("")),
              ad_text |-> Get(raw_data.v, "ad_creative_body", PyStr("")),
              active |-> PyNone,
              media |-> PyList(<<>>),
              country |-> PyStr("US")], clock))

\* faulty variant: a source tag that is not "api" is treated as "mock"
NormalizeBySource_mockByDefault(source, raw_data, clock) ==
    IF source = PyStr("api") THEN NormalizeApiRecord(raw_data, clock)
    ELSE NormalizeMockRecord(raw_data, clock)

\* the try block of _normalize_single_record, by source tag
NormalizeBySource(source, raw_data, clock) ==
    IF source = PyStr("mock") THEN NormalizeMockRecord(raw_data, clock)
    ELSE IF source = PyStr("api") THEN NormalizeApiRecord(raw_data, clock)
    ELSE Ok(PyNone)

\* _normalize_single_record(raw_record, line_num): the record, None, or the
\* exception raised before its try block is entered
NormalizeSingleRecord(raw_record, clock) ==
    IF raw_record.t # "dict" THEN Raise("AttributeError")
    ELSE LET raw_data == Get(raw_record.v, "raw_data", PyDict(EmptyDict))
             source == Get(raw_record.v, "source", PyStr("unknown"))
             r == NormalizeBySource(source, raw_data, clock)
         IN  IF r.ok THEN r ELSE Ok(PyNone)

\* one iteration of the loop of _process_raw_data: Ok(record) when the line
\* is appended, otherwise the reason it is skipped
ProcessRawLine(line, clock) ==
    LET parsed == JsonLoads(line)
    IN  IF ~parsed.ok THEN parsed
        ELSE LET r == NormalizeSingleRecord(parsed.val, clock)
             IN  IF ~r.ok THEN r
                 ELSE IF Truthy(r.val) THEN Ok(r.val.v)
                 ELSE Raise("falsy")

----------------------------------------------------------------------------
(* enrich/enrich_ads.py *)

\* faulty variant: the duration is parsed only when the language of the text
\* was detected
EnrichSingleRecord_afterLanguage(ad, clock, det) ==
    LET language == detect_language(ad.ad_text.v, det)
        duration == IF language = "unknown" THEN Ok(0)
                    ELSE parse_duration(ad.active)
    IN  IF ~duration.ok THEN duration
        ELSE Dumped(AdEnrichedSchema(
                 [ad_id |-> ad.ad_id,
                  ad_text |-> ad.ad_text,
                  active |-> ad.active,
                  media |-> ad.media,
                  country |-> ad.country,
                  duration_hours |-> PyFloat(duration.val),
                  media_type |-> PyStr(get_media_type(ad.media)),
                  language |-> PyStr(language)],
                 clock))

\* _enrich_single_record(normalized_ad, line_num), det being the behaviour
\* of langdetect.detect
EnrichSingleRecord(ad, clock, det) ==
    LET duration == parse_duration(ad.active)
    IN  IF ~duration.ok THEN duration
        ELSE Dumped(AdEnrichedSchema(
                 [ad_id |-> ad.ad_id,
                  ad_text |-> ad.ad_text,
                  active |-> ad.active,
                  media |-> ad.media,
                  country |-> ad.country,
                  duration_hours |-> PyFloat(duration.val),
                  media_type |-> PyStr(get_media_type(ad.media)),
                  language |-> PyStr(detect_language(ad.ad_text.v, det))],
                 clock))

\* one iteration of the loop of _process_normalized_data
ProcessNormalizedLine(line, clock, det) ==
    LET parsed == JsonLoads(line)
    IN  IF ~parsed.ok THEN parsed
        ELSE LET ad == Unpack(AdNormalizedSchema, parsed.val, clock)
             IN  IF ~ad.ok THEN ad
                 ELSE LET r == EnrichSingleRecord(ad.val, clock, det)
                      IN  IF ~r.ok THEN r
                          ELSE IF Truthy(r.val) THEN Ok(r.val.v)
                          ELSE Raise("falsy")

----------------------------------------------------------------------------
(* utils/ranker.py *)

TopN == 10

\* faulty variant: a media type outside the table is weighted like "none"
Multiplier_unknownAsNone(media_type) ==
    CASE media_type = "both" -> 12
      [] media_type = "video-only" -> 11
      [] media_type = "image-only" -> 10
      [] OTHER -> 5

\* media_multipliers.get(media_type, 1.0), in tenths
Multiplier(media_type) ==
    CASE media_type = "both" -> 12
      [] media_type = "video-only" -> 11
      [] media_type = "image-only" -> 10
      [] media_type = "none" -> 5
      [] OTHER -> 10

\* faulty variant: an ad without media_type is scored like one whose
\* media_type is not in the table
proxy_score_absentAsOther(ad) ==
    LET base_duration == ToFloat(Get(ad, "duration_hours", PyFloat(0))).v
        media_type == Get(ad, "media_type", PyStr("unknown")).v
    IN  base_duration * Multiplier(media_type)

\* proxy_score(ad) in thousandths
proxy_score(ad) ==
    LET base_duration == ToFloat(Get(ad, "duration_hours", PyFloat(0))).v
        media_type == Get(ad, "media_type", PyStr("none")).v
    IN  base_duration * Multiplier(media_type)

RECURSIVE InsertByScore_beforeEqual(_, _)
\* faulty variant: ad placed in front of the elements of equal score
InsertByScore_beforeEqual(sorted, ad) ==
    IF sorted = <<>> THEN <<ad>>
    ELSE IF proxy_score(Head(sorted)) > proxy_score(ad)
         THEN <<Head(sorted)>> \o InsertByScore_beforeEqual(Tail(sorted), ad)
         ELSE <<ad>> \o sorted

RECURSIVE InsertByScore(_, _)
\* ad placed behind every element whose score is not smaller
InsertByScore(sorted, ad) ==
    IF sorted = <<>> THEN <<ad>>
    ELSE IF proxy_score(Head(sorted)) >= proxy_score(ad)
         THEN <<Head(sorted)>> \o InsertByScore(Tail(sorted), ad)
         ELSE <<ad>> \o sorted

\* faulty variant: the list is left in the order it came
SortedByScore_asGiven(ads_list) == ads_list

RECURSIVE SortedByScore(_)
\* sorted(ads_list, key=proxy_score, reverse=True): descending and stable
SortedByScore(ads_list) ==
    IF ads_list = <<>> THEN <<>>
    ELSE InsertByScore(SortedByScore(SubSeq(ads_list, 1, Len(ads_list) - 1)),
                       ads_list[Len(ads_list)])

\* faulty variant: nothing is cut off
Take_all(q, n) == q

\* sorted_ads[:10]
Take(q, n) == SubSeq(q, 1, IF Len(q) < n THEN Len(q) ELSE n)

\* faulty variant: the ten at the low end of the sorted list
top_10_ads_lowest(ads_list) ==
    LET sorted_ads == SortedByScore(ads_list)
    IN  SubSeq(sorted_ads,
               IF Len(sorted_ads) > TopN THEN Len(sorted_ads) - TopN + 1 ELSE 1,
               Len(sorted_ads))

\* top_10_ads(ads_list)
top_10_ads(ads_list) ==
    IF ads_list = <<>> THEN <<>> ELSE Take(SortedByScore(ads_list), TopN)

----------------------------------------------------------------------------
(* rank/rank_ads.py *)

\* one iteration of the loop of _load_enriched_ads
LoadEnrichedLine(line, clock) ==
    LET parsed == JsonLoads(line)
    IN  IF ~parsed.ok THEN parsed
        ELSE LET ad == Unpack(AdEnrichedSchema, parsed.val, clock)
             IN  IF ~ad.ok THEN ad ELSE Ok(ad.val)

\* the columns of the data frame built from the top ads
CsvHeader(top_ads) == [kind |-> "header", columns |-> DOMAIN top_ads[1]]

\* one row of the CSV file
CsvRow(ad) == [kind |-> "row", cells |-> ad]

\* pd.DataFrame(top_ads).to_csv(output_csv, index=False)
ToCsv(top_ads) ==
    <<CsvHeader(top_ads)>> \o [i \in 1..Len(top_ads) |-> CsvRow(top_ads[i])]

----------------------------------------------------------------------------
(* extract/fetch_ads.py, extract/modes/mock_mode.py, extract/modes/api_mode.py *)

MEDIA_COMBINATIONS ==
    {<<PyStr("image")>>, <<PyStr("video")>>,
     <<PyStr("image"), PyStr("video")>>, <<>>}

\* duration_minutes = random.randint(30, 600): the two ends of the range
MockDurations == {30, 600}

JsonLine(d) == [wf |-> TRUE, val |-> PyDict(d)]

\* _generate_mock_ad(index, ...), the random draws being media and minutes
GenerateMockAd(index, media, minutes, ingestion_time) ==
    [source |-> PyStr("mock"),
     ingestion_time |-> PyStr(ingestion_time),
     raw_data |-> PyDict(
        [ad_id |-> PyStr("mock_" \o IntToStr(index)),
         page_name |-> PyStr("Mock Page " \o IntToStr(index)),
         ad_text |-> PyStr("This is a test ad #" \o IntToStr(index)),
         active |-> PyStr("Active for " \o IntToStr(minutes \div 60)
                          \o " hrs " \o IntToStr(minutes % 60) \o " mins"),
         media |-> PyList(media),
         country |-> PyStr("US")])]

\* the random draws of one call of fetch_mock_ads
MockDraws == [0..(MockCount - 1) -> MEDIA_COMBINATIONS \X MockDurations]

\* the file fetch_mock_ads writes for the given draws
MockFile(draws, clock) ==
    [i \in 1..MockCount |->
        JsonLine(GenerateMockAd(i - 1, draws[i - 1][1], draws[i - 1][2],
                                IsoFormat(clock)))]

ApiAdFull == [id |-> PyStr("api_123"),
              ad_creative_body |-> PyStr("API test ad"),
              page_name |-> PyStr("Test Page")]

ApiAdBare == [page_name |-> PyStr("Test Page")]

\* what requests.get does: a network failure, an error status, or status
\* 200 with a list of ads
ApiResponses ==
    {[kind |-> "RequestException"], [kind |-> "status", code |-> 401]}
    \cup {[kind |-> "data", data |-> d] :
             d \in {<<>>, <<PyDict(ApiAdFull)>>,
                    <<PyDict(ApiAdFull), PyDict(ApiAdBare)>>,
                    <<PyDict(ApiAdBare), PyInt(7)>>}}

\* the file _process_and_save_data writes
ApiFile(data, clock) ==
    [i \in 1..Len(data) |->
        JsonLine([source |-> PyStr("api"),
                  ingestion_time |-> PyStr(IsoFormat(clock)),
                  raw_data |-> data[i]])]

\* fetch_api_ads(output_path, access_token): the exception it raises, if any
FetchApiError(response) ==
    IF response.kind = "RequestException" THEN "RequestException"
    ELSE IF response.kind = "status" THEN "RuntimeError"
    ELSE "none"

\* faulty variant: only an absent credential is refused, an empty one is used
ExtractApiError_absentOnly(access_token, response) ==
    IF access_token.t = "None" THEN "ValueError"
    ELSE FetchApiError(response)

\* _extract_api_data(output_path): the exception it raises, if any
ExtractApiError(access_token, response) ==
    IF access_token.t = "None" \/ access_token.v = "" THEN "ValueError"
    ELSE FetchApiError(response)

\* fetch_ads_data(mode, output_path): every failure becomes a RuntimeError
FetchAdsOutcome(mode, access_token, response, outp) ==
    IF mode = "api" /\ ExtractApiError(access_token, response) # "none"
    THEN Raised("RuntimeError")
    ELSE Returned(outp)

\* the file fetch_ads_data leaves at its output path when it returns
FetchAdsFile(mode, response, draws, clock) ==
    IF mode = "mock" THEN MockFile(draws, clock)
    ELSE ApiFile(response.data, clock)

----------------------------------------------------------------------------
(* Input files of the test harness (tests/test_pipeline.py writes such    *)
(* files and calls the stages on them)                                     *)

\* JSON that is not an object
NonObject == [wf |-> TRUE, val |-> PyList(<<>>)]

\* a quantity no float can hold
HugeDuration == Repeat("9", FloatMaxDigits + 1) \o " hrs"

FullPayload(id) ==
    [ad_id |-> PyStr(id),
     ad_text |-> PyStr("Test advertisement"),
     active |-> PyStr("Active for 2 hrs 30 mins"),
     media |-> PyList(<<PyStr("image"), PyStr("video")>>),
     country |-> PyStr("CA"),
     page_id |-> PyStr("page_1")]

RawRecord(source, payload) ==
    JsonLine([source |-> PyStr(source),
              ingestion_time |-> PyStr("2024-01-01T0"),
              raw_data |-> PyDict(payload)])

MockFull == RawRecord("mock", FullPayload("test_1"))

MockNoPayload == JsonLine([source |-> PyStr("mock")])

MockBadType == RawRecord("mock", [FullPayload("test_3") EXCEPT
                                      !.ad_id = PyInt(3)])

MockHuge == RawRecord("mock", [FullPayload("test_4") EXCEPT
                                   !.active = PyStr(HugeDuration)])

ApiFull == RawRecord("api", [id |-> PyStr("api_123"),
                             ad_creative_body |-> PyStr("API test ad"),
                             active |-> PyStr("Active for 1 hr"),
                             media |-> PyList(<<PyStr("video")>>),
                             country |-> PyStr("CA")])

ApiBare == RawRecord("api", [page_name |-> PyStr("Test Page")])

UnknownSource == RawRecord("csv", FullPayload("test_5"))

NoSource == JsonLine([ingestion_time |-> PyStr("2024-01-01T0"),
                      raw_data |-> PyDict(FullPayload("test_6"))])

RawLines == {Garbage, NonObject, MockFull, MockNoPayload, MockBadType,
             MockHuge, ApiFull, ApiBare, UnknownSource, NoSource}

NormFull == JsonLine([ad_id |-> PyStr("test_1"),
                      ad_text |-> PyStr("Hello World!"),
                      active |-> PyStr("Active for 1 hr 15 mins"),
                      media |-> PyList(<<PyStr("image")>>),
                      country |-> PyStr("US"),
                      normalized_at |-> PyStr(IsoFormat(0))])

NormMinimal == JsonLine([ad_id |-> PyStr(""),
                         ad_text |-> PyStr("  "),
                         country |-> PyStr("")])

NormDegraded == JsonLine([ad_id |-> PyStr("test_2"),
                          ad_text |-> PyStr("12345"),
                          active |-> PyStr("Active for 2 hours"),
                          media |-> PyList(<<PyStr("audio")>>),
                          country |-> PyStr("CA")])

NormNoId == JsonLine([ad_text |-> PyStr("Hello World!"),
                      country |-> PyStr("US")])

NormHuge == JsonLine([ad_id |-> PyStr("test_4"),
                      ad_text |-> PyStr("Hello World!"),
                      active |-> PyStr(HugeDuration),
                      media |-> PyList(<<PyStr("audio")>>),
                      country |-> PyStr("US")])

NormLines == {Garbage, NonObject, NormFull, NormMinimal, NormDegraded,
              NormNoId, NormHuge}

EnrichedRecord(id, hours, media_type) ==
    [ad_id |-> PyStr(id),
     ad_text |-> PyStr("Test ad"),
     active |-> PyStr("Active for 2 hrs"),
     media |-> PyList(<<PyStr("image")>>),
     country |-> PyStr("US"),
     duration_hours |-> hours,
     media_type |-> PyStr(media_type),
     language |-> PyStr("en")]

EnrImage == JsonLine(EnrichedRecord("test_1", PyFloat(200), "image-only"))

EnrVideo == JsonLine(EnrichedRecord("test_2", PyInt(3), "video-only"))

EnrBoth == JsonLine(EnrichedRecord("test_3", PyFloat(100), "both"))

EnrNoDuration == JsonLine([ad_id |-> PyStr("test_4"),
                           ad_text |-> PyStr("Test ad"),
                           country |-> PyStr("US"),
                           media_type |-> PyStr("none")])

\* a record with a negative duration and a media type outside the four
EnrOutOfRange == JsonLine(EnrichedRecord("test_5", PyFloat(-200), "carousel"))

EnrichedLines == {Garbage, NonObject, EnrImage, EnrVideo, EnrBoth,
                  EnrNoDuration, EnrOutOfRange}

\* the lines the harness may put into the input file of a stage
LinesFor(s) == CASE s = "normalize" -> RawLines
                 [] s = "enrich" -> NormLines
                 [] s = "rank" -> EnrichedLines

SeqsUpTo(S, n) == UNION {[1..k -> S] : k \in 0..n}

\* the temporary files of the harness, one per layer
Tmp(layer) == Path("/tmp", layer)

InputOf(s) == CASE s = "normalize" -> Tmp("bronze.jsonl")
                [] s = "enrich" -> Tmp("silver.jsonl")
                [] s = "rank" -> Tmp("gold.jsonl")

OutputOf(s) == CASE s = "normalize" -> Tmp("silver.jsonl")
                 [] s = "enrich" -> Tmp("gold.jsonl")
                 [] s = "rank" -> Tmp("top10.csv")

\* what an output file left over from an earlier run holds
StaleContent == <<[wf |-> TRUE, val |-> PyStr("stale")]>>

Stages == <<"normalize", "enrich", "rank">>

StageIndex(s) == CHOOSE i \in 1..3 : Stages[i] = s

\* the output paths of the stage first and of the stages behind it
LaterOutputs(first) == {OutputOf(Stages[i]) : i \in StageIndex(first)..3}

----------------------------------------------------------------------------
(* Initial states *)

\* a metadata database without rows
NoSession == [dag_runs |-> <<>>, task_instances |-> <<>>]

NoFiles == [p \in {} |-> <<>>]

\* The harness has written the input file of the stage it calls first (or
\* left it out) and has, or has not, left output files from an earlier run.
InitHarness ==
    \E first \in {"normalize", "enrich", "rank"}, stale \in BOOLEAN :
    \E input \in {NoFiles} \cup
                 {InputOf(first) :> c : c \in SeqsUpTo(LinesFor(first), MaxLines)} :
        /\ driver = [kind |-> "harness", first |-> first]
        /\ fs = input @@ (IF stale
                          THEN [p \in LaterOutputs(first) |-> StaleContent]
                          ELSE NoFiles)
        /\ dirs = {"/tmp"}
        /\ token = PyNone
        /\ api = [kind |-> "RequestException"]

\* run_local_pipeline.py is started with --mode mock or --mode api; the
\* credential and the remote API only matter in api mode.
InitPipeline ==
    \E mode \in {"mock", "api"} :
        /\ driver = [kind |-> "run_pipeline", mode |-> mode]
        /\ fs = NoFiles
        /\ dirs = {}
        /\ token \in (IF mode = "api"
                      THEN {PyNone, PyStr(""), PyStr("test_token")}
                      ELSE {PyNone})
        /\ api \in (IF mode = "api" THEN ApiResponses
                    ELSE {[kind |-> "RequestException"]})

Init ==
    /\ (InitHarness \/ InitPipeline)
    /\ now = 1
    /\ detector = "en"
    /\ stage = "none"
    /\ pc = "idle"
    /\ input_path = NoPath
    /\ output_path = NoPath
    /\ line_num = 0
    /\ buffer = <<>>
    /\ stats = [processed |-> 0]
    /\ outcome = NotCalled
    /\ calls = <<>>
    /\ exit_code = -1
    /\ session = NoSession

----------------------------------------------------------------------------
(* The stage functions, step by step *)

\* the statistics dictionary a stage starts with
InitialStats(s) == IF s = "normalize" THEN [processed |-> 0, skipped |-> 0]
                   ELSE [processed |-> 0, errors |-> 0]

\* faulty variant: a rejected line leaves the statistics as they are
CountRejected_uncounted(st) == st

\* stats with one more rejected line
CountRejected(st) == IF "skipped" \in DOMAIN st
                     THEN [st EXCEPT !.skipped = @ + 1]
                     ELSE [st EXCEPT !.errors = @ + 1]

\* stats with one more processed line
CountProcessed(st) == [st EXCEPT !.processed = @ + 1]

\* faulty variant: the output file is opened for writing, and so emptied,
\* before the input file is opened
StageCall_outputFirst(s, inp, outp) ==
    LET out == IF outp = NoPath THEN DefaultOutput(s, now) ELSE outp
        opened == IF inp \in DOMAIN fs THEN Ok(fs[inp])
                  ELSE Raise("FileNotFoundError")
    IN  /\ pc \in {"idle", "done"}
        /\ stage' = s
        /\ input_path' = inp
        /\ output_path' = out
        /\ now' = Tick(now)
        /\ detector' \in (IF s = "enrich" THEN DetectOutcomes ELSE {detector})
        /\ dirs' = dirs \cup {out.dir}
        /\ fs' = (out :> <<>>) @@ fs
        /\ line_num' = 0
        /\ buffer' = <<>>
        /\ stats' = InitialStats(s)
        /\ calls' = Append(calls, [stage |-> s, input |-> inp])
        /\ IF opened.ok
           THEN pc' = "loop" /\ outcome' = Running
           ELSE pc' = "done" /\ outcome' = Raised(opened.exc)
        /\ UNCHANGED <<session, token, api, driver, exit_code>>

\* A stage function is entered: the output path is defaulted, normalize and
\* enrich create the output directory, and the input file is opened.
StageCall(s, inp, outp) ==
    LET out == IF outp = NoPath THEN DefaultOutput(s, now) ELSE outp
        opened == OpenForRead(fs, inp)
    IN  /\ pc \in {"idle", "done"}
        /\ stage' = s
        /\ input_path' = inp
        /\ output_path' = out
        /\ now' = Tick(now)
        /\ detector' \in (IF s = "enrich" THEN DetectOutcomes ELSE {detector})
        /\ dirs' = IF s \in {"normalize", "enrich"} THEN dirs \cup {out.dir}
                   ELSE dirs
        /\ line_num' = 0
        /\ buffer' = <<>>
        /\ stats' = InitialStats(s)
        /\ calls' = Append(calls, [stage |-> s, input |-> inp])
        /\ IF opened.ok
           THEN pc' = "loop" /\ outcome' = Running
           ELSE pc' = "done" /\ outcome' = Raised(StageException(opened.exc))
        /\ UNCHANGED <<session, fs, token, api, driver, exit_code>>

\* the per-line transform of a stage
ProcessLine(s, line, clock, det) ==
    CASE s = "normalize" -> ProcessRawLine(line, clock)
      [] s = "enrich" -> ProcessNormalizedLine(line, clock, det)
      [] s = "rank" -> LoadEnrichedLine(line, clock)

\* faulty variant: a loop that flushes the buffer to the output path after
\* every line instead of holding it until the end
StageLine_streaming(s) ==
    /\ pc = "loop"
    /\ stage = s
    /\ line_num < Len(fs[input_path])
    /\ LET r == ProcessLine(s, fs[input_path][line_num + 1], now, detector)
       IN  /\ buffer' = IF r.ok THEN Append(buffer, r.val) ELSE buffer
           /\ stats' = IF r.ok THEN CountProcessed(stats)
                       ELSE CountRejected(stats)
    /\ fs' = IF s = "rank" THEN fs
             ELSE (output_path :> [i \in 1..Len(buffer') |-> JsonDumps(buffer'[i])])
                      @@ fs
    /\ line_num' = line_num + 1
    /\ UNCHANGED <<session, dirs, now, detector, token, api, driver, stage, pc,
                   input_path, output_path, outcome, calls, exit_code>>

\* one iteration of the per-line loop of stage s
StageLine(s) ==
    /\ pc = "loop"
    /\ stage = s
    /\ line_num < Len(fs[input_path])
    /\ LET r == ProcessLine(s, fs[input_path][line_num + 1], now, detector)
       IN  /\ buffer' = IF r.ok THEN Append(buffer, r.val) ELSE buffer
           /\ stats' = IF r.ok THEN CountProcessed(stats)
                       ELSE CountRejected(stats)
    /\ line_num' = line_num + 1
    /\ UNCHANGED <<session, fs, dirs, now, detector, token, api, driver, stage, pc,
                   input_path, output_path, outcome, calls, exit_code>>

NormalizeLine == StageLine("normalize")

EnrichLine == StageLine("enrich")

RankLine == StageLine("rank")

\* faulty variant: the buffer is written from its last record to its first
JsonlContent_reversed(records) ==
    [i \in 1..Len(records) |-> JsonDumps(records[Len(records) + 1 - i])]

\* the lines _write_normalized_data / _write_enriched_data write
JsonlContent(records) == [i \in 1..Len(records) |-> JsonDumps(records[i])]

\* The loop of normalize_ads or enrich_ads has ended: the buffer is written
\* to the output path and the path is returned.
WriteAndReturn(s) ==
    /\ pc = "loop"
    /\ stage = s
    /\ line_num = Len(fs[input_path])
    /\ fs' = WriteFile(fs, output_path, JsonlContent(buffer))
    /\ outcome' = Returned(output_path)
    /\ pc' = "done"
    /\ UNCHANGED <<session, dirs, now, detector, token, api, driver, stage, input_path,
                   output_path, line_num, buffer, stats, calls, exit_code>>

NormalizeReturn == WriteAndReturn("normalize")

EnrichReturn == WriteAndReturn("enrich")

\* The loop of _load_enriched_ads has ended: without valid ads rank_ads
\* returns at once, otherwise it writes the top ads as CSV.
RankReturn ==
    /\ pc = "loop"
    /\ stage = "rank"
    /\ line_num = Len(fs[input_path])
    /\ IF buffer = <<>>
       THEN UNCHANGED <<fs, dirs>>
       ELSE /\ dirs' = dirs \cup {output_path.dir}
            /\ fs' = WriteFile(fs, output_path, ToCsv(top_10_ads(buffer)))
    /\ outcome' = Returned(output_path)
    /\ pc' = "done"
    /\ UNCHANGED <<session, now, detector, token, api, driver, stage, input_path,
                   output_path, line_num, buffer, stats, calls, exit_code>>

----------------------------------------------------------------------------
(* The test harness: tests/test_pipeline.py calls a stage on a file it has *)
(* written and feeds each stage's output to the next stage                 *)

HarnessFirst ==
    /\ driver.kind = "harness"
    /\ calls = <<>>
    /\ StageCall(driver.first, InputOf(driver.first), OutputOf(driver.first))

\* the stage that follows prev
NextStage(prev) == CASE prev = "extract" -> "normalize"
                     [] prev = "normalize" -> "enrich"
                     [] prev = "enrich" -> "rank"

HarnessNext ==
    /\ driver.kind = "harness"
    /\ pc = "done"
    /\ outcome.kind = "returned"
    /\ stage \in {"normalize", "enrich"}
    /\ StageCall(NextStage(stage), outcome.value, OutputOf(NextStage(stage)))

----------------------------------------------------------------------------
(* run_local_pipeline.py *)

\* _execute_extraction_stage: fetch_ads_data(mode=mode) as one step
PipelineExtract ==
    /\ driver.kind = "run_pipeline"
    /\ pc = "idle"
    /\ calls = <<>>
    /\ \E draws \in MockDraws :
         LET out == DefaultOutput("extract", now)
             res == FetchAdsOutcome(driver.mode, token, api, out)
         IN  /\ stage' = "extract"
             /\ input_path' = NoPath
             /\ output_path' = out
             /\ outcome' = res
             /\ IF res.kind = "returned"
                THEN /\ dirs' = dirs \cup {out.dir}
                     /\ fs' = WriteFile(fs, out,
                                 FetchAdsFile(driver.mode, api, draws, now))
                ELSE UNCHANGED <<fs, dirs>>
    /\ now' = Tick(now)
    /\ pc' = "done"
    /\ calls' = Append(calls, [stage |-> "extract", input |-> NoPath])
    /\ UNCHANGED <<session, detector, token, api, driver, line_num, buffer, stats,
                   exit_code>>

\* faulty variant: every stage reads the raw file of the default location
PipelineInput_default(returned) == Path("data/bronze", "ads_raw.jsonl")

\* the input path run_pipeline hands to the stage that follows: the path
\* the previous stage returned
PipelineInput(returned) == returned

\* one of the later stage calls in the try block of run_pipeline
PipelineStep(s) ==
    /\ driver.kind = "run_pipeline"
    /\ exit_code = -1
    /\ pc = "done"
    /\ outcome.kind = "returned"
    /\ stage # "rank"
    /\ NextStage(stage) = s
    /\ StageCall(s, PipelineInput(outcome.value), NoPath)

PipelineNormalize == PipelineStep("normalize")

PipelineEnrich == PipelineStep("enrich")

PipelineRank == PipelineStep("rank")

\* the try block has ended: run_pipeline returns and the process exits
PipelineSuccess ==
    /\ driver.kind = "run_pipeline"
    /\ exit_code = -1
    /\ pc = "done"
    /\ stage = "rank"
    /\ outcome.kind = "returned"
    /\ exit_code' = 0
    /\ UNCHANGED <<session, fs, dirs, now, detector, token, api, driver, stage, pc,
                   input_path, output_path, line_num, buffer, stats, outcome,
                   calls>>

\* except Exception: sys.exit(1)
PipelineFailure ==
    /\ driver.kind = "run_pipeline"
    /\ exit_code = -1
    /\ pc = "done"
    /\ outcome.kind = "raised"
    /\ exit_code' = 1
    /\ UNCHANGED <<session, fs, dirs, now, detector, token, api, driver, stage, pc,
                   input_path, output_path, line_num, buffer, stats, outcome,
                   calls>>

----------------------------------------------------------------------------

Next ==
    \/ HarnessFirst
    \/ HarnessNext
    \/ NormalizeLine
    \/ NormalizeReturn
    \/ EnrichLine
    \/ EnrichReturn
    \/ RankLine
    \/ RankReturn
    \/ PipelineExtract
    \/ PipelineNormalize
    \/ PipelineEnrich
    \/ PipelineRank
    \/ PipelineSuccess
    \/ PipelineFailure

Spec == Init /\ [][Next]_vars

TypeOK ==
    /\ pc \in {"idle", "loop", "done"}
    /\ stage \in {"none", "extract", "normalize", "enrich", "rank"}
    /\ exit_code \in {-1, 0, 1}
    /\ line_num \in 0..50

----------------------------------------------------------------------------
(* Vocabulary of the properties *)

StageNames == {"normalize", "enrich", "rank"}

\* the rejected counter of a statistics dictionary
Rejected(st) == IF "skipped" \in DOMAIN st THEN st.skipped ELSE st.errors

AbsentOrStr(d, key) == key \in DOMAIN d => IsStr(d[key])

IsObjectLine(line) == line.wf /\ line.val.t = "dict"

SourceOf(line) == Get(line.val.v, "source", PyStr("unknown"))

PayloadOf(line) == Get(line.val.v, "raw_data", PyDict(EmptyDict))

IsMockLine(line) == IsObjectLine(line) /\ SourceOf(line) = PyStr("mock")

IsApiLine(line) == IsObjectLine(line) /\ SourceOf(line) = PyStr("api")

\* a JSON object whose source tag is neither "mock" nor "api"
IsUnknownSourceLine(line) ==
    IsObjectLine(line) /\ SourceOf(line) \notin {PyStr("mock"), PyStr("api")}

\* a raw line that is well-formed and satisfies the normalized schema
ValidRawLine(line) ==
    /\ IsObjectLine(line)
    /\ PayloadOf(line).t = "dict"
    /\ \/ /\ IsMockLine(line)
          /\ AbsentOrStr(PayloadOf(line).v, "ad_id")
          /\ AbsentOrStr(PayloadOf(line).v, "ad_text")
          /\ ("active" \in DOMAIN PayloadOf(line).v =>
                 IsOptionalStr(PayloadOf(line).v["active"]))
          /\ ("media" \in DOMAIN PayloadOf(line).v =>
                 IsStrList(PayloadOf(line).v["media"]))
          /\ AbsentOrStr(PayloadOf(line).v, "country")
       \/ /\ IsApiLine(line)
          /\ AbsentOrStr(PayloadOf(line).v, "id")
          /\ AbsentOrStr(PayloadOf(line).v, "ad_creative_body")

\* a line that is well-formed and valid input of stage s
ValidLine(s, line) ==
    CASE s = "normalize" -> ValidRawLine(line)
      [] s = "enrich" ->
             IsObjectLine(line) /\ AdNormalizedSchema(line.val.v, 0).ok
      [] s = "rank" ->
             IsObjectLine(line) /\ AdEnrichedSchema(line.val.v, 0).ok

\* positions of the valid lines of a file
ValidPositions(s, file) == {i \in 1..Len(file) : ValidLine(s, file[i])}

\* the identifier of the record a valid line of stage s yields
IdOfLine(s, line) ==
    IF s = "normalize"
    THEN Get(PayloadOf(line).v, IF IsApiLine(line) THEN "id" ELSE "ad_id",
             PyStr(""))
    ELSE line.val.v.ad_id

\* the k-th smallest element of a set of numbers
Nth(S, k) == CHOOSE x \in S : Cardinality({y \in S : y <= x}) = k

\* the loop of the stage in progress has consumed its whole input
LoopEnded == /\ stage \in StageNames
             /\ input_path \in DOMAIN fs
             /\ \/ pc = "done"
                \/ pc = "loop" /\ line_num = Len(fs[input_path])

\* the line consumed by a step of the per-line loop
ConsumedLine == fs[input_path][line_num + 1]

\* a step of the per-line loop of stage s
IsLineStep(s) == /\ stage = s
                 /\ pc = "loop"
                 /\ line_num' = line_num + 1

\* the step appends a record to the buffer
Appends == Len(buffer') = Len(buffer) + 1

LastAppended == buffer'[Len(buffer')]

----------------------------------------------------------------------------
(* Properties *)

\* C1: whenever a stage (normalize_ads, enrich_ads, the loading of rank_ads)
\* has run on an existing input file, it has returned without raising,
\* processed equals the number N of well-formed valid lines, rejected equals
\* the number M of the other lines, and the buffer holds exactly the N
\* records of the valid lines, in their order.
C1_FaultIsolation ==
    (stage \in StageNames /\ pc = "done" /\ input_path \in DOMAIN fs) =>
        LET file == fs[input_path]
            valid == ValidPositions(stage, file)
        IN  /\ outcome = Returned(output_path)
            /\ stats.processed = Cardinality(valid)
            /\ Rejected(stats) = Len(file) - Cardinality(valid)
            /\ Len(buffer) = Cardinality(valid)
            /\ \A k \in 1..Len(buffer) :
                   k <= Cardinality(valid) =>
                       buffer[k].ad_id = IdOfLine(stage, file[Nth(valid, k)])

\* C2: a stage called on an input path where no file exists ends by raising
\* FileNotFoundError itself (not wrapped), has counted no line as processed
\* or rejected, and returns no output path.
C2_MissingInputIsFatal ==
    (stage \in StageNames /\ input_path \notin DOMAIN fs) =>
        /\ pc = "done"
        /\ outcome = Raised("FileNotFoundError")
        /\ stats.processed = 0
        /\ Rejected(stats) = 0
        /\ buffer = <<>>

C2_Witness ==
    /\ stage = "enrich"
    /\ input_path \notin DOMAIN fs
    /\ outcome.kind = "raised"

\* the records of a CSV file
CsvRecords(content) == [i \in 1..(Len(content) - 1) |-> content[i + 1].cells]

MinOf(a, b) == IF a < b THEN a ELSE b

\* C3: whenever a stage has returned normally, the file at the returned
\* path exists and holds exactly the records of this call (for rank_ads the
\* min(10, V) top records, V = 0 included) and nothing of an older file.
C3_OutputIsThisCallsRecords ==
    (stage \in StageNames /\ pc = "done" /\ outcome.kind = "returned") =>
        /\ outcome.value \in DOMAIN fs
        /\ fs[outcome.value] # StaleContent
        /\ stage \in {"normalize", "enrich"} =>
               fs[outcome.value] = JsonlContent(buffer)
        /\ stage = "rank" =>
               LET V == Cardinality(ValidPositions("rank", fs[input_path]))
                   content == fs[outcome.value]
               IN  /\ Len(content) >= 1
                   /\ content[1].kind = "header"
                   /\ Len(CsvRecords(content)) = MinOf(TopN, V)
                   /\ CsvRecords(content) = top_10_ads(buffer)

\* C4: when the first input holds no valid record (empty, or every line
\* rejected), every stage call of the chain returns its output path.
C4_EmptyIsLegitimate ==
    (/\ pc = "done"
     /\ stage \in StageNames
     /\ \E i \in 1..Len(calls) :
            /\ calls[i].stage \in StageNames
            /\ (i > 1 => calls[i - 1].stage \notin StageNames)
            /\ calls[i].input \in DOMAIN fs
            /\ ValidPositions(calls[i].stage, fs[calls[i].input]) = {})
    => outcome = Returned(output_path)

C4_Witness ==
    /\ pc = "done"
    /\ stage = "rank"
    /\ outcome.kind = "returned"
    /\ Len(calls) = 3
    /\ calls[1].stage = "normalize"
    /\ Len(fs[calls[1].input]) = 2
    /\ ValidPositions("normalize", fs[calls[1].input]) = {}


\* C5: a step of normalize_ads that consumes a JSON object whose source tag
\* is neither "mock" nor "api" (or is missing) appends nothing, counts the
\* line as skipped and not as processed, and stays in the loop.
C5_UnknownSourceRejected ==
    [][(IsLineStep("normalize") /\ IsUnknownSourceLine(ConsumedLine)) =>
           /\ buffer' = buffer
           /\ stats'.skipped = stats.skipped + 1
           /\ stats'.processed = stats.processed
           /\ pc' = "loop"]_vars

C5_Witness ==
    /\ stage = "normalize"
    /\ pc = "done"
    /\ input_path \in DOMAIN fs
    /\ Len(fs[input_path]) = 3
    /\ fs[input_path][1] = NoSource
    /\ fs[input_path][2] = UnknownSource
    /\ fs[input_path][3] = MockFull
    /\ stats = [processed |-> 1, skipped |-> 2]

\* C6: the record normalize_ads appends for a line tagged "api" has ad_id =
\* payload id ("" if absent), ad_text = payload ad_creative_body ("" if
\* absent), active = None, media = [] and country = "US", whatever the
\* payload holds under active, media or country; a payload whose id and
\* ad_creative_body are strings or absent always yields a record.
C6_ApiMapping ==
    [][(IsLineStep("normalize") /\ IsApiLine(ConsumedLine)) =>
           /\ ValidRawLine(ConsumedLine) => Appends
           /\ Appends =>
                /\ LastAppended.ad_id =
                       Get(PayloadOf(ConsumedLine).v, "id", PyStr(""))
                /\ LastAppended.ad_text =
                       Get(PayloadOf(ConsumedLine).v, "ad_creative_body",
                           PyStr(""))
                /\ LastAppended.active = PyNone
                /\ LastAppended.media = PyList(<<>>)
                /\ LastAppended.country = PyStr("US")]_vars

C6_Witness ==
    /\ stage = "normalize"
    /\ pc = "done"
    /\ input_path \in DOMAIN fs
    /\ Len(fs[input_path]) = 2
    /\ fs[input_path][1] = ApiFull
    /\ fs[input_path][2] = ApiBare
    /\ Len(buffer) = 2
    /\ buffer[1].country = PyStr("US")
    /\ buffer[2].ad_id = PyStr("")

\* C7: the record normalize_ads appends for a line tagged "mock" copies
\* ad_id, ad_text, active, media and country from the payload, with "" for
\* an absent ad_id, ad_text or country, [] for an absent media and None for
\* an absent active; a line whose payload lacks any of them, or has no
\* payload at all, is never rejected for that.
C7_MockMapping ==
    [][(IsLineStep("normalize") /\ IsMockLine(ConsumedLine)) =>
           /\ ValidRawLine(ConsumedLine) => Appends
           /\ Appends =>
                LET payload == PayloadOf(ConsumedLine).v
                    record == LastAppended
                IN  /\ record.ad_id = Get(payload, "ad_id", PyStr(""))
                    /\ record.ad_text = Get(payload, "ad_text", PyStr(""))
                    /\ record.active = Get(payload, "active", PyNone)
                    /\ record.media = Get(payload, "media", PyList(<<>>))
                    /\ record.country = Get(payload, "country", PyStr(""))]_vars

C7_Witness ==
    /\ stage = "normalize"
    /\ pc = "done"
    /\ input_path \in DOMAIN fs
    /\ Len(fs[input_path]) = 2
    /\ fs[input_path][1] = MockNoPayload
    /\ fs[input_path][2] = MockFull
    /\ Len(buffer) = 2
    /\ buffer[1].ad_id = PyStr("")
    /\ buffer[2].ad_id = PyStr("test_1")

\* the stage call in progress reads the file the previous stage call wrote
ReadsPreviousOutput ==
    /\ Len(calls) >= 2
    /\ calls[Len(calls) - 1].stage \in {"normalize", "enrich"}
    /\ stage = NextStage(calls[Len(calls) - 1].stage)

\* C8: enrich_ads rejects no line of a file normalize_ads wrote, and the
\* loading of rank_ads rejects no line of a file enrich_ads wrote.
C8_RoundTrip ==
    (stage \in {"enrich", "rank"} /\ ReadsPreviousOutput) =>
        Rejected(stats) = 0

\* C9: the record enrich_ads appends holds every field of the normalized
\* record it was derived from (ad_id, ad_text, active, media, country,
\* normalized_at) with the same value, next to duration_hours, media_type,
\* language and enriched_at.
C9_EnrichedSuperset ==
    [][(IsLineStep("enrich") /\ Appends) =>
           LET normalized == AdNormalizedSchema(ConsumedLine.val.v, now).val
           IN  /\ \A f \in DOMAIN normalized :
                      /\ f \in DOMAIN LastAppended
                      /\ LastAppended[f] = normalized[f]
               /\ {"duration_hours", "media_type", "language", "enriched_at"}
                      \subseteq DOMAIN LastAppended]_vars

PipelineOrder == <<"extract", "normalize", "enrich", "rank">>

\* C10: run_pipeline calls extract, normalize, enrich, rank in this order;
\* each call after the first is made when the previous call has returned and
\* gets the returned path as its input; once a stage has raised no further
\* stage is called and the next step exits with status 1.
C10_PipelineOrder ==
    /\ [](driver.kind = "run_pipeline" =>
            /\ Len(calls) <= 4
            /\ \A i \in 1..Len(calls) : calls[i].stage = PipelineOrder[i]
            /\ exit_code = 0 => (Len(calls) = 4 /\ outcome.kind = "returned")
            /\ exit_code = 1 => outcome.kind = "raised")
    /\ [][driver.kind = "run_pipeline" =>
            /\ calls' # calls =>
                 /\ calls # <<>> => (pc = "done" /\ outcome.kind = "returned")
                 /\ calls' = Append(calls,
                        [stage |-> PipelineOrder[Len(calls) + 1],
                         input |-> IF calls = <<>> THEN NoPath
                                   ELSE outcome.value])
            /\ outcome.kind = "raised" =>
                 (calls' = calls /\ exit_code' = 1)]_vars

C10_Witness ==
    /\ driver.kind = "run_pipeline"
    /\ exit_code = 0
    /\ Len(calls) = 4
    /\ calls[4].input \in DOMAIN fs
    /\ Len(fs[calls[4].input]) = MockCount

----------------------------------------------------------------------------
(* The utility functions called on their own, as the unit tests call them *)

\* the quantities written in front of a unit: none, small ones, one with
\* leading zeros, and one no float can hold
HourQuantities == {"", "0", "2", "10", "007", Repeat("9", FloatMaxDigits + 1)}
MinuteQuantities == {"", "0", "15", "45", "90", "100"}

HourUnits == {" hrs", " hr", "HRS", " hours"}
MinuteUnits == {" mins", "min", " minutes"}

\* a duration text and the parts it was written from
DurationInput(prefix, x, hunit, y, munit) ==
    [prefix |-> prefix, x |-> x, hunit |-> hunit, y |-> y, munit |-> munit,
     text |-> PyStr(prefix
                    \o (IF x = "" THEN "" ELSE x \o hunit)
                    \o (IF x # "" /\ y # "" THEN " " ELSE "")
                    \o (IF y = "" THEN "" ELSE y \o munit))]

DurationInputs ==
    {DurationInput(prefix, x, hunit, y, munit) :
        prefix \in {"", "Active for "}, x \in HourQuantities,
        hunit \in HourUnits, y \in MinuteQuantities, munit \in MinuteUnits}
    \cup {[prefix |-> "", x |-> "", hunit |-> "", y |-> "", munit |-> "",
           text |-> t] : t \in {PyNone, PyStr("No duration info")}}

\* the arguments a unit test passes to parse_duration
DurationCalls ==
    {[kind |-> "unit", fn |-> "parse_duration", arg |-> d.text, parts |-> d] :
        d \in DurationInputs}

\* the call of parse_duration by a unit test
CallParseDuration ==
    /\ driver.kind = "unit"
    /\ driver.fn = "parse_duration"
    /\ pc = "idle"
    /\ pc' = "done"
    /\ outcome' = LET r == parse_duration(driver.arg)
                  IN  IF r.ok THEN Returned(r.val) ELSE Raised(r.exc)
    /\ UNCHANGED <<session, fs, dirs, now, detector, token, api, driver, stage,
                   input_path, output_path, line_num, buffer, stats, calls,
                   exit_code>>

MaxTags == 3       \* longest media list handed to get_media_type
MaxAds == 11       \* longest list handed to top_10_ads

MediaTags == {PyStr("image"), PyStr("video"), PyStr("audio")}

\* the arguments a unit test passes to get_media_type
MediaCalls ==
    {[kind |-> "unit", fn |-> "get_media_type", arg |-> a] :
        a \in {PyNone} \cup {PyList(q) : q \in SeqsUpTo(MediaTags, MaxTags)}}

\* the call of get_media_type by a unit test
CallGetMediaType ==
    /\ driver.kind = "unit"
    /\ driver.fn = "get_media_type"
    /\ pc = "idle"
    /\ pc' = "done"
    /\ outcome' = Returned(get_media_type(driver.arg))
    /\ UNCHANGED <<session, fs, dirs, now, detector, token, api, driver, stage,
                   input_path, output_path, line_num, buffer, stats, calls,
                   exit_code>>

DetectTexts == {"", " ", "\t", " \n ", "   ", "Hello World!", "12345",
                "!@#$%", "a", "Hello 123", " padded ", "Test ad"}

\* the arguments a unit test passes to detect_language
DetectCalls ==
    {[kind |-> "unit", fn |-> "detect_language", arg |-> t] :
        t \in DetectTexts}

\* detect_language reaches its call of langdetect.detect
InvokesDetect(text) == ~(text = "" \/ IsBlank(text))

\* the call of detect_language by a unit test; calls records the use of the
\* external detection
CallDetectLanguage ==
    /\ driver.kind = "unit"
    /\ driver.fn = "detect_language"
    /\ pc = "idle"
    /\ pc' = "done"
    /\ outcome' = Returned(detect_language(driver.arg, detector))
    /\ calls' = IF InvokesDetect(driver.arg)
                THEN Append(calls, [stage |-> "detect", input |-> driver.arg])
                ELSE calls
    /\ UNCHANGED <<session, fs, dirs, now, detector, token, api, driver, stage,
                   input_path, output_path, line_num, buffer, stats,
                   exit_code>>

ScoreDurations == {PyFloat(0), PyFloat(50), PyFloat(100), PyFloat(150),
                   PyFloat(200), PyFloat(300), PyFloat(1234), PyInt(4)}

ScoreMediaTypes == {PyStr("both"), PyStr("video-only"), PyStr("image-only"),
                    PyStr("none"), PyStr("carousel"), PyStr(""),
                    PyStr("BOTH")}

\* a dict with the given keys left out when the value is the marker
AdOf(duration, media_type) ==
    (IF duration = PyNone THEN EmptyDict
     ELSE [k \in {"duration_hours"} |-> duration])
    @@ (IF media_type = PyNone THEN EmptyDict
        ELSE [k \in {"media_type"} |-> media_type])

\* the arguments a unit test passes to proxy_score
ScoreCalls ==
    {[kind |-> "unit", fn |-> "proxy_score", arg |-> AdOf(d, m)] :
        d \in ScoreDurations \cup {PyNone},
        m \in ScoreMediaTypes \cup {PyNone}}

\* the call of proxy_score by a unit test
CallProxyScore ==
    /\ driver.kind = "unit"
    /\ driver.fn = "proxy_score"
    /\ pc = "idle"
    /\ pc' = "done"
    /\ outcome' = Returned(proxy_score(driver.arg))
    /\ UNCHANGED <<session, fs, dirs, now, detector, token, api, driver, stage,
                   input_path, output_path, line_num, buffer, stats, calls,
                   exit_code>>

\* the (duration, media type) an ad at position i of a list may have: the
\* scores 1.0 and 1.2 at odd positions, 1.0 and 0.5 at even ones, all of
\* them products that floating point computes exactly
RankKinds(i) ==
    IF i % 2 = 1 THEN {<<100, "image-only">>, <<100, "both">>}
    ELSE {<<200, "none">>, <<100, "none">>}

\* the ad at position i: its identifier tells where it stood in the input
RankedAd(i, kind) ==
    [ad_id |-> PyStr("ad_" \o IntToStr(i)),
     duration_hours |-> PyFloat(kind[1]),
     media_type |-> PyStr(kind[2])]

RECURSIVE AdLists(_)
\* the lists of n ads
AdLists(n) ==
    IF n = 0 THEN {<<>>}
    ELSE {Append(q, RankedAd(n, kind)) :
              q \in AdLists(n - 1), kind \in RankKinds(n)}

\* the arguments a unit test passes to top_10_ads
RankCalls ==
    {[kind |-> "unit", fn |-> "top_10_ads", arg |-> q] :
        q \in UNION {AdLists(n) : n \in 0..MaxAds}}

\* the call of top_10_ads by a unit test
CallTop10Ads ==
    /\ driver.kind = "unit"
    /\ driver.fn = "top_10_ads"
    /\ pc = "idle"
    /\ pc' = "done"
    /\ outcome' = Returned(top_10_ads(driver.arg))
    /\ UNCHANGED <<session, fs, dirs, now, detector, token, api, driver, stage,
                   input_path, output_path, line_num, buffer, stats, calls,
                   exit_code>>

\* a unit test is about to call one utility function with one argument
UnitInit ==
    /\ driver \in DurationCalls \cup MediaCalls \cup DetectCalls
                  \cup ScoreCalls \cup RankCalls
    /\ detector \in (IF driver.fn = "detect_language" THEN DetectOutcomes
                     ELSE {"en"})
    /\ fs = NoFiles
    /\ dirs = {}
    /\ token = PyNone
    /\ api = [kind |-> "RequestException"]
    /\ now = 1
    /\ stage = "none"
    /\ pc = "idle"
    /\ input_path = NoPath
    /\ output_path = NoPath
    /\ line_num = 0
    /\ buffer = <<>>
    /\ stats = [processed |-> 0]
    /\ outcome = NotCalled
    /\ calls = <<>>
    /\ exit_code = -1
    /\ session = NoSession

UnitNext ==
    \/ CallParseDuration
    \/ CallGetMediaType
    \/ CallDetectLanguage
    \/ CallProxyScore
    \/ CallTop10Ads

UnitSpec == UnitInit /\ [][UnitNext]_vars

----------------------------------------------------------------------------
(* Properties of the utility functions *)

\* a unit call of fn has been made
UnitDone(fn) == driver.kind = "unit" /\ driver.fn = fn /\ pc = "done"

\* the units of the text, where a quantity is written, are hr/hrs, min/mins
ShortUnits(parts) ==
    /\ parts.x # "" => parts.hunit \in {" hrs", " hr", "HRS"}
    /\ parts.y # "" => parts.munit \in {" mins", "min"}

\* h hundredths of an hour is X + Y/60 rounded to two decimals
IsRoundedHours(h, X, Y) ==
    LET d == 60 * h - 6000 * X - 100 * Y IN d >= -30 /\ d <= 30

\* C11: parse_duration of "X hrs Y mins", with or without a prefix, returns
\* X + Y/60 rounded to 2 decimals, for all numerals X and Y; either token
\* alone gives X or Y/60 rounded; None and "" give 0.0; the result is never
\* negative.
C11_DurationArithmetic ==
    (UnitDone("parse_duration") /\ ShortUnits(driver.parts)) =>
        /\ outcome.kind = "returned"
        /\ outcome.value >= 0
        /\ IsRoundedHours(outcome.value, StrToInt(driver.parts.x),
                          StrToInt(driver.parts.y))

\* every quantity of the text is written with a unit spelled out in full
SpelledOutUnits(parts) ==
    /\ parts.x # "" \/ parts.y # ""
    /\ parts.x # "" => parts.hunit = " hours"
    /\ parts.y # "" => parts.munit = " minutes"

TagsOf(media_list) ==
    IF media_list.t = "None" THEN {}
    ELSE {media_list.v[i] : i \in 1..Len(media_list.v)}

\* C13: the result of get_media_type is decided by whether "image" and
\* "video" occur among the tags: both gives "both", image alone
\* "image-only", video alone "video-only", neither (empty list, None, only
\* other tags) "none"; order, repetition and other tags play no part.
C13_MediaTypeBySet ==
    UnitDone("get_media_type") =>
        LET image == PyStr("image") \in TagsOf(driver.arg)
            video == PyStr("video") \in TagsOf(driver.arg)
        IN  outcome = Returned(IF image /\ video THEN "both"
                               ELSE IF image THEN "image-only"
                               ELSE IF video THEN "video-only"
                               ELSE "none")

C13_Witness ==
    /\ UnitDone("get_media_type")
    /\ driver.arg = PyList(<<PyStr("video"), PyStr("audio"), PyStr("image")>>)
    /\ outcome = Returned("both")

\* C14: detect_language returns a string for every text, a language code
\* or "unknown"; for an empty or whitespace-only text it returns "unknown"
\* and the external detection is not invoked; when the external detection
\* raises, whatever it raises, the result is "unknown".
C14_DetectNeverRaises ==
    UnitDone("detect_language") =>
        /\ outcome.kind = "returned"
        /\ outcome.value \in LanguageCodes \cup {"unknown"}
        /\ (driver.arg = "" \/ IsBlank(driver.arg)) =>
               (outcome.value = "unknown" /\ calls = <<>>)
        /\ detector \notin LanguageCodes => outcome.value = "unknown"

C14_Witness ==
    /\ UnitDone("detect_language")
    /\ driver.arg = " \n "
    /\ detector = "en"
    /\ outcome = Returned("unknown")
    /\ calls = <<>>

\* C15: proxy_score(ad) is duration_hours times the multiplier of
\* media_type: 1.2 for both, 1.1 for video-only, 1.0 for image-only, 0.5
\* for none and 1.0 for any other value; a missing duration_hours counts as
\* 0.0 and proxy_score({}) is 0.0.  (Scores in thousandths, multipliers in
\* tenths.)
C15_ScoreIsDurationTimesMultiplier ==
    UnitDone("proxy_score") =>
        LET ad == driver.arg
            hours == IF "duration_hours" \notin DOMAIN ad THEN 0
                     ELSE IF ad["duration_hours"].t = "int"
                          THEN 100 * ad["duration_hours"].v
                          ELSE ad["duration_hours"].v
        IN  /\ outcome.kind = "returned"
            /\ "media_type" \in DOMAIN ad =>
                   outcome.value =
                       hours * (CASE ad["media_type"] = PyStr("both") -> 12
                                  [] ad["media_type"] = PyStr("video-only") -> 11
                                  [] ad["media_type"] = PyStr("image-only") -> 10
                                  [] ad["media_type"] = PyStr("none") -> 5
                                  [] OTHER -> 10)
            /\ "duration_hours" \notin DOMAIN ad => outcome.value = 0

C15_Witness ==
    /\ UnitDone("proxy_score")
    /\ driver.arg = AdOf(PyFloat(150), PyStr("carousel"))
    /\ outcome = Returned(1500)

\* C16: top_10_ads returns min(10, len(input)) records, and the empty list
\* for the empty list.
C16_TopTenLength ==
    UnitDone("top_10_ads") =>
        /\ outcome.kind = "returned"
        /\ Len(outcome.value) = MinOf(TopN, Len(driver.arg))
        /\ driver.arg = <<>> => outcome.value = <<>>

C16_Witness ==
    /\ UnitDone("top_10_ads")
    /\ Len(driver.arg) = TopN + 1
    /\ Len(outcome.value) = TopN

\* number of times record r occurs in list q
Count(q, r) == Cardinality({i \in DOMAIN q : q[i] = r})

\* C18: the output of top_10_ads holds no record more often than the input
\* does, and every record the output leaves out scores no higher than any
\* record of the output.
C18_SelectsHighest ==
    UnitDone("top_10_ads") =>
        LET input == driver.arg
            output == outcome.value
        IN  /\ \A j \in DOMAIN output :
                   Count(output, output[j]) <= Count(input, output[j])
            /\ \A k \in DOMAIN input, j \in DOMAIN output :
                   Count(output, input[k]) < Count(input, input[k]) =>
                       proxy_score(input[k]) <= proxy_score(output[j])

C18_Witness ==
    /\ UnitDone("top_10_ads")
    /\ Len(driver.arg) = TopN + 1
    /\ proxy_score(driver.arg[TopN + 1]) > proxy_score(driver.arg[1])
    /\ outcome.value[1] = driver.arg[TopN + 1]

\* where record r stands in list q (the records of q differ by ad_id)
PositionIn(q, r) == CHOOSE k \in DOMAIN q : q[k] = r

\* C19: records of equal score stand in the output of top_10_ads in the
\* order they had in the input, and where the cut after the 10th record
\* parts records of equal score, the ones kept are the ones that came
\* first in the input.
C19_StableRanking ==
    UnitDone("top_10_ads") =>
        LET input == driver.arg
            output == outcome.value
        IN  /\ \A i, j \in DOMAIN output :
                   (i < j /\ proxy_score(output[i]) = proxy_score(output[j]))
                       => PositionIn(input, output[i])
                              < PositionIn(input, output[j])
            /\ \A k \in DOMAIN input, j \in DOMAIN output :
                   (/\ Count(output, input[k]) = 0
                    /\ proxy_score(input[k]) = proxy_score(output[j]))
                       => PositionIn(input, output[j]) < k

C19_Witness ==
    /\ UnitDone("top_10_ads")
    /\ Len(driver.arg) = TopN + 1
    /\ \A k \in DOMAIN driver.arg :
           proxy_score(driver.arg[k]) = proxy_score(driver.arg[1])
    /\ outcome.value = SubSeq(driver.arg, 1, TopN)

----------------------------------------------------------------------------
(* rank_ads on files longer than the ranking *)

\* the enriched file whose lines hold the ads of list q
RankFileLines(q) ==
    [i \in DOMAIN q |->
        JsonLine(EnrichedRecord(q[i].ad_id.v, q[i].duration_hours,
                                q[i].media_type.v))]

\* the harness has written an enriched file of up to MaxAds ads and calls
\* rank_ads on it
RankFileInit ==
    /\ driver = [kind |-> "harness", first |-> "rank"]
    /\ \E n \in 0..MaxAds : \E q \in AdLists(n) :
           fs = (InputOf("rank") :> RankFileLines(q))
    /\ dirs = {"/tmp"}
    /\ token = PyNone
    /\ api = [kind |-> "RequestException"]
    /\ now = 1
    /\ detector = "en"
    /\ stage = "none"
    /\ pc = "idle"
    /\ input_path = NoPath
    /\ output_path = NoPath
    /\ line_num = 0
    /\ buffer = <<>>
    /\ stats = [processed |-> 0]
    /\ outcome = NotCalled
    /\ calls = <<>>
    /\ exit_code = -1
    /\ session = NoSession

RankFileNext ==
    \/ HarnessFirst
    \/ RankLine
    \/ RankReturn

RankFileSpec == RankFileInit /\ [][RankFileNext]_vars

\* the scores along list q never go up
NonIncreasing(q) ==
    \A i \in 1..(Len(q) - 1) : proxy_score(q[i]) >= proxy_score(q[i + 1])

MediaTypes == {PyStr("image-only"), PyStr("video-only"), PyStr("both"),
               PyStr("none")}

\* C20: every row of the file rank_ads has written has a duration_hours
\* that is not negative and a media_type among image-only, video-only,
\* both and none, whatever the input file held.
C20_RankedRecordsInRange ==
    (stage = "rank" /\ pc = "done" /\ outcome.kind = "returned"
        /\ buffer # <<>>) =>
        \A i \in DOMAIN CsvRecords(fs[outcome.value]) :
            LET row == CsvRecords(fs[outcome.value])[i]
            IN  /\ row.duration_hours.v >= 0
                /\ row.media_type \in MediaTypes

----------------------------------------------------------------------------
(* fetch_ads_data called on its own, as tests/test_extract.py calls it; *)
(* calls records the uses of the fetch collaborators                     *)

\* the output path fetch_ads_data works with
ExtractOutput(arg, clock) ==
    IF arg = NoPath THEN DefaultOutput("extract", clock) ELSE arg

\* what the file system holds before the call
ExtractFiles(call) ==
    IF call.stale
    THEN ExtractOutput(call.arg, 1) :> StaleContent
    ELSE NoFiles

ExtractCalls ==
    {[kind |-> "unit", fn |-> "fetch_ads_data", mode |-> mode, arg |-> arg,
      stale |-> stale] :
        mode \in {"mock", "api"},
        arg \in {NoPath, Tmp("bronze.jsonl")},
        stale \in BOOLEAN}

ExtractInit ==
    /\ driver \in ExtractCalls
    /\ fs = ExtractFiles(driver)
    /\ dirs = {"/tmp"}
    /\ token \in (IF driver.mode = "api"
                  THEN {PyNone, PyStr(""), PyStr("test_token")}
                  ELSE {PyNone})
    /\ api \in (IF driver.mode = "api" THEN ApiResponses
                ELSE {[kind |-> "RequestException"]})
    /\ now = 1
    /\ detector = "en"
    /\ stage = "none"
    /\ pc = "idle"
    /\ input_path = NoPath
    /\ output_path = NoPath
    /\ line_num = 0
    /\ buffer = <<>>
    /\ stats = [processed |-> 0]
    /\ outcome = NotCalled
    /\ calls = <<>>
    /\ exit_code = -1
    /\ session = NoSession

\* fetch_ads_data up to the call of a collaborator: in mock mode
\* fetch_mock_ads writes the file; in api mode _extract_api_data raises when
\* the credential is missing and calls fetch_api_ads otherwise
FetchAdsCall ==
    /\ driver.kind = "unit"
    /\ driver.fn = "fetch_ads_data"
    /\ pc = "idle"
    /\ stage' = "extract"
    /\ output_path' = ExtractOutput(driver.arg, now)
    /\ now' = Tick(now)
    /\ IF driver.mode = "mock"
       THEN \E draws \in MockDraws :
              /\ calls' = Append(calls, [stage |-> "fetch_mock_ads",
                                         input |-> PyNone])
              /\ dirs' = dirs \cup {output_path'.dir}
              /\ fs' = WriteFile(fs, output_path', MockFile(draws, now))
              /\ outcome' = Returned(output_path')
              /\ pc' = "done"
       ELSE IF ExtractApiError(token, [kind |-> "data", data |-> <<>>])
                   = "ValueError"
            THEN /\ outcome' = Raised("RuntimeError")
                 /\ pc' = "done"
                 /\ UNCHANGED <<fs, dirs, calls>>
            ELSE /\ calls' = Append(calls, [stage |-> "fetch_api_ads",
                                            input |-> token])
                 /\ outcome' = Running
                 /\ pc' = "fetch"
                 /\ UNCHANGED <<fs, dirs>>
    /\ UNCHANGED <<session, detector, token, api, driver, input_path, line_num,
                   buffer, stats, exit_code>>

\* fetch_api_ads: the request, and the file when the request succeeded;
\* whatever it raises leaves fetch_ads_data as RuntimeError
FetchApiAds ==
    /\ driver.kind = "unit"
    /\ driver.fn = "fetch_ads_data"
    /\ pc = "fetch"
    /\ IF FetchApiError(api) = "none"
       THEN /\ dirs' = dirs \cup {output_path.dir}
            /\ fs' = WriteFile(fs, output_path, ApiFile(api.data, now))
            /\ outcome' = Returned(output_path)
       ELSE /\ outcome' = Raised("RuntimeError")
            /\ UNCHANGED <<fs, dirs>>
    /\ pc' = "done"
    /\ UNCHANGED <<session, now, detector, token, api, driver, stage, input_path,
                   output_path, line_num, buffer, stats, calls, exit_code>>

ExtractNext ==
    \/ FetchAdsCall
    \/ FetchApiAds

ExtractSpec == ExtractInit /\ [][ExtractNext]_vars

\* the ACCESS_TOKEN credential is absent or empty
NoCredential == token = PyNone \/ token = PyStr("")

----------------------------------------------------------------------------
(* Degraded inputs of enrich_ads *)

\* the record AdNormalizedSchema builds from a valid normalized line
NormalizedOf(line) == AdNormalizedSchema(line.val.v, 0).val

\* neither (\d+)\s*hrs? nor (\d+)\s*mins? matches the active text
NoDurationToken(active) ==
    \/ active.t = "None"
    \/ MatchStarts(active.v, "hr") = {} /\ MatchStarts(active.v, "min") = {}

\* the media list holds tags, none of them "image" or "video"
AllTagsUnrecognized(media) ==
    /\ media.v # <<>>
    /\ \A i \in 1..Len(media.v) : media.v[i] \notin {PyStr("image"), PyStr("video")}

\* langdetect.detect raises
DetectionFails == detector \notin LanguageCodes

\* the step appends a record and counts it as processed
Emits == Appends /\ stats'.processed = stats.processed + 1

\* C22: in enrich_ads a valid normalized record is never rejected for being
\* degraded: when its active text holds no duration token it is emitted and
\* counted with duration_hours 0.0, when its media tags are all unrecognized
\* it is emitted and counted with media_type "none", and when the language
\* detection fails it is emitted and counted with language "unknown".
C22_DegradedNeverRejected ==
    [][(IsLineStep("enrich") /\ ValidLine("enrich", ConsumedLine)) =>
          LET ad == NormalizedOf(ConsumedLine)
          IN  /\ NoDurationToken(ad.active) =>
                     Emits /\ LastAppended.duration_hours = PyFloat(0)
              /\ AllTagsUnrecognized(ad.media) =>
                     Emits /\ LastAppended.media_type = PyStr("none")
              /\ DetectionFails =>
                     Emits /\ LastAppended.language = PyStr("unknown")]_vars

----------------------------------------------------------------------------
(* The output of normalize_ads and enrich_ads is written once, at the end *)

BufferingStages == {"normalize", "enrich"}

\* C23: within a call of normalize_ads or enrich_ads the file system changes
\* in no step that enters the function or consumes a line; it changes only
\* once every input line has been consumed, and then the output path
\* receives the whole in-memory buffer in one write.
C23_WriteOnlyAfterLoop ==
    [][/\ (stage' \in BufferingStages /\ pc' = "loop") => fs' = fs
       /\ (stage \in BufferingStages /\ pc = "loop" /\ fs' # fs) =>
              /\ line_num = Len(fs[input_path])
              /\ pc' = "done"
              /\ fs' = (output_path :> JsonlContent(buffer)) @@ fs]_vars

\* a call has consumed several lines and written its records
C23_Witness ==
    /\ stage \in BufferingStages
    /\ pc = "done"
    /\ outcome = Returned(output_path)
    /\ line_num >= 2
    /\ Len(buffer) >= 2
    /\ fs[output_path] = JsonlContent(buffer)

----------------------------------------------------------------------------
(* The derived fields of enrich_ads *)

\* C24: every record enrich_ads has accumulated carries the duration_hours
\* parse_duration gives for its active text and the media_type
\* get_media_type gives for its media list, so two records with equal active
\* text and equal media list have equal duration_hours and media_type,
\* whatever their other fields, their positions and the rest of the batch.
C24_DerivedFieldsArePure ==
    (stage = "enrich" /\ pc \in {"loop", "done"}) =>
        \A i \in DOMAIN buffer :
            /\ buffer[i].duration_hours.t = "float"
            /\ parse_duration(buffer[i].active) =
                   Ok(buffer[i].duration_hours.v)
            /\ buffer[i].media_type = PyStr(get_media_type(buffer[i].media))
            /\ \A j \in DOMAIN buffer :
                   (buffer[i].active = buffer[j].active
                        /\ buffer[i].media = buffer[j].media) =>
                       /\ buffer[i].duration_hours = buffer[j].duration_hours
                       /\ buffer[i].media_type = buffer[j].media_type

\* enrich_ads has emitted two records with the same active text and media
\* list at the two ends of a batch of three, the detection having failed
C24_Witness ==
    /\ stage = "enrich"
    /\ pc = "done"
    /\ DetectionFails
    /\ Len(buffer) = 3
    /\ buffer[1].active = buffer[3].active
    /\ buffer[1].media = buffer[3].media
    /\ buffer[2].active # buffer[1].active
    /\ buffer[1].duration_hours = PyFloat(125)
    /\ buffer[1].media_type = PyStr("image-only")

----------------------------------------------------------------------------
(* scripts/cleanup_stuck_tasks.py: the clean-up of the Airflow metadata    *)
(* database.  A table is a function from the keys of its rows to the rows; *)
(* dates are minutes, NoDate is NULL.                                      *)

MaxTasks == 1      \* task instances per DAG run key

NoDate == -1

\* the arguments main passes
StuckRunMinutes == 30
StuckTaskMinutes == 15
OldRunHours == 24

\* datetime.utcnow() when the script runs
CleanupNow == 1500

\* timedelta(hours=h) in minutes
Hours(h) == h * 60

\* column < cutoff in a filter: never true of NULL
Before(date, cutoff) == date # NoDate /\ date < cutoff

RunKeys == {[dag_id |-> "ads_pipeline", run_id |-> r] : r \in {"run_1", "run_2"}}

TaskKeys == {[dag_id |-> k.dag_id, run_id |-> k.run_id, task_id |-> t] :
                k \in RunKeys, t \in 1..MaxTasks}

Row(state, start_date, end_date) ==
    [state |-> state, start_date |-> start_date, end_date |-> end_date]

\* the DAG runs a database may hold: the dates lie on both sides of the
\* cutoffs and on them
RunRows ==
    {Row("queued", NoDate, NoDate)}
    \cup {Row("running", d, NoDate) :
             d \in {NoDate, CleanupNow - StuckRunMinutes - 1,
                    CleanupNow - StuckRunMinutes}}
    \cup {Row("success", 0, CleanupNow - Hours(OldRunHours) - 1)}
    \cup {Row("failed", 0, d) :
             d \in {CleanupNow - Hours(OldRunHours) - 1,
                    CleanupNow - Hours(OldRunHours)}}

\* the task instances a database may hold
TaskRows ==
    {Row("queued", NoDate, NoDate), Row("success", 0, 1),
     Row("up_for_retry", 0, 1)}
    \cup {Row("running", d, NoDate) :
             d \in {CleanupNow - StuckTaskMinutes - 1,
                    CleanupNow - StuckTaskMinutes}}

\* every table over a set of keys: each key has a row or none
Tables(keys, rows) ==
    UNION {[present -> rows] : present \in SUBSET keys}

Sessions ==
    {[dag_runs |-> runs, task_instances |-> tis] :
        runs \in Tables(RunKeys, RunRows),
        tis \in [TaskKeys -> TaskRows]}

\* session.query(DagRun).filter(DagRun.state == State.RUNNING,
\*                              DagRun.start_date < cutoff_time)
StuckRuns(db, cutoff) ==
    {k \in DOMAIN db.dag_runs :
        /\ db.dag_runs[k].state = "running"
        /\ Before(db.dag_runs[k].start_date, cutoff)}

\* faulty variant: the task instances are selected by dag_id alone
TaskInstancesOf_byDag(db, k) ==
    {t \in DOMAIN db.task_instances : t.dag_id = k.dag_id}

\* session.query(TaskInstance).filter(TaskInstance.dag_id == dag_run.dag_id,
\*                                    TaskInstance.run_id == dag_run.run_id)
TaskInstancesOf(db, k) ==
    {t \in DOMAIN db.task_instances :
        t.dag_id = k.dag_id /\ t.run_id = k.run_id}

\* a row marked as failed at the time clock
Failed(row, clock) == [row EXCEPT !.state = "failed", !.end_date = clock]

\* cleanup_stuck_dag_runs(max_age_minutes): the database after the commit
\* and the count returned.  The runs selected have disjoint task instances,
\* so the loop over them is a map over the tables.
cleanup_stuck_dag_runs(db, clock, max_age_minutes) ==
    LET stuck_runs == StuckRuns(db, clock - max_age_minutes)
        touched == UNION {TaskInstancesOf(db, k) : k \in stuck_runs}
    IN  [session |->
             [dag_runs |->
                  [k \in DOMAIN db.dag_runs |->
                      IF k \in stuck_runs THEN Failed(db.dag_runs[k], clock)
                      ELSE db.dag_runs[k]],
              task_instances |->
                  [t \in DOMAIN db.task_instances |->
                      IF /\ t \in touched
                         /\ db.task_instances[t].state \in {"running", "queued"}
                      THEN Failed(db.task_instances[t], clock)
                      ELSE db.task_instances[t]]],
         cleaned_count |-> Cardinality(stuck_runs)]

\* cleanup_stuck_task_instances(max_age_minutes)
cleanup_stuck_task_instances(db, clock, max_age_minutes) ==
    LET stuck_tasks ==
            {t \in DOMAIN db.task_instances :
                /\ db.task_instances[t].state = "running"
                /\ Before(db.task_instances[t].start_date,
                          clock - max_age_minutes)}
    IN  [session |->
             [db EXCEPT !.task_instances =
                  [t \in DOMAIN db.task_instances |->
                      IF t \in stuck_tasks
                      THEN Failed(db.task_instances[t], clock)
                      ELSE db.task_instances[t]]],
         cleaned_count |-> Cardinality(stuck_tasks)]

\* session.query(DagRun).filter(
\*     DagRun.state.in_([State.FAILED, State.SUCCESS]),
\*     DagRun.end_date < cutoff_time)
OldRuns(db, cutoff) ==
    {k \in DOMAIN db.dag_runs :
        /\ db.dag_runs[k].state \in {"failed", "success"}
        /\ Before(db.dag_runs[k].end_date, cutoff)}

\* cleanup_old_failed_runs(max_age_hours)
cleanup_old_failed_runs(db, clock, max_age_hours) ==
    LET old_runs == OldRuns(db, clock - Hours(max_age_hours))
        deleted == UNION {TaskInstancesOf(db, k) : k \in old_runs}
    IN  [session |->
             [dag_runs |->
                  [k \in DOMAIN db.dag_runs \ old_runs |-> db.dag_runs[k]],
              task_instances |->
                  [t \in DOMAIN db.task_instances \ deleted |->
                      db.task_instances[t]]],
         cleaned_count |-> Cardinality(old_runs)]

CleanupFunctions ==
    {"cleanup_stuck_dag_runs", "cleanup_stuck_task_instances",
     "cleanup_old_failed_runs"}

\* a clean-up function applied with the argument main passes to it
Cleanup(fn, db, clock) ==
    CASE fn = "cleanup_stuck_dag_runs" ->
             cleanup_stuck_dag_runs(db, clock, StuckRunMinutes)
      [] fn = "cleanup_stuck_task_instances" ->
             cleanup_stuck_task_instances(db, clock, StuckTaskMinutes)
      [] fn = "cleanup_old_failed_runs" ->
             cleanup_old_failed_runs(db, clock, OldRunHours)

\* the script is run (main), or one of its functions is called on its own
CleanupInit ==
    /\ driver \in {[kind |-> "cleanup", fn |-> fn] :
                      fn \in CleanupFunctions \cup {"main"}}
    /\ session \in Sessions
    /\ now = CleanupNow
    /\ fs = NoFiles
    /\ dirs = {}
    /\ token = PyNone
    /\ api = [kind |-> "RequestException"]
    /\ detector = "en"
    /\ stage = "none"
    /\ pc = "idle"
    /\ input_path = NoPath
    /\ output_path = NoPath
    /\ line_num = 0
    /\ buffer = <<>>
    /\ stats = [cleaned |-> 0]
    /\ outcome = NotCalled
    /\ calls = <<>>
    /\ exit_code = -1

\* one of the clean-up functions called on its own commits and returns
CleanupCall ==
    /\ driver.kind = "cleanup"
    /\ driver.fn \in CleanupFunctions
    /\ pc = "idle"
    /\ LET r == Cleanup(driver.fn, session, now)
       IN  /\ session' = r.session
           /\ outcome' = Returned(r.cleaned_count)
    /\ calls' = Append(calls, driver.fn)
    /\ pc' = "done"
    /\ UNCHANGED <<fs, dirs, now, detector, token, api, driver, stage,
                   input_path, output_path, line_num, buffer, stats,
                   exit_code>>

\* the function main calls after having made the calls so far
MainSteps ==
    <<"cleanup_stuck_dag_runs", "cleanup_stuck_task_instances",
      "cleanup_old_failed_runs">>

\* main calls its next clean-up function, which commits and returns
MainStep ==
    /\ driver.kind = "cleanup"
    /\ driver.fn = "main"
    /\ exit_code = -1
    /\ Len(calls) < Len(MainSteps)
    /\ LET fn == MainSteps[Len(calls) + 1]
           r == Cleanup(fn, session, now)
       IN  /\ session' = r.session
           /\ outcome' = Returned(r.cleaned_count)
           /\ stats' = [cleaned |-> stats.cleaned + r.cleaned_count]
           /\ calls' = Append(calls, fn)
    /\ pc' = "main"
    /\ UNCHANGED <<fs, dirs, now, detector, token, api, driver, stage,
                   input_path, output_path, line_num, buffer, exit_code>>

\* main has made its three calls and returns 0
MainSuccess ==
    /\ driver.kind = "cleanup"
    /\ driver.fn = "main"
    /\ exit_code = -1
    /\ Len(calls) = Len(MainSteps)
    /\ exit_code' = 0
    /\ pc' = "done"
    /\ UNCHANGED <<session, fs, dirs, now, detector, token, api, driver,
                   stage, input_path, output_path, line_num, buffer, stats,
                   outcome, calls>>

\* the database fails under the next call of main: the session is rolled
\* back, main catches the exception and returns 1
MainFailure ==
    /\ driver.kind = "cleanup"
    /\ driver.fn = "main"
    /\ exit_code = -1
    /\ Len(calls) < Len(MainSteps)
    /\ outcome' = Raised("Exception")
    /\ exit_code' = 1
    /\ pc' = "done"
    /\ UNCHANGED <<session, fs, dirs, now, detector, token, api, driver,
                   stage, input_path, output_path, line_num, buffer, stats,
                   calls>>

CleanupNext ==
    \/ CleanupCall
    \/ MainStep
    \/ MainSuccess
    \/ MainFailure

CleanupSpec == CleanupInit /\ [][CleanupNext]_vars

\* the step is a call of the clean-up function fn that commits
IsCleanupStep(fn) ==
    /\ driver.kind = "cleanup"
    /\ Len(calls') = Len(calls) + 1
    /\ calls'[Len(calls')] = fn

\* the DAG runs that are stuck before the step
StuckBefore ==
    {k \in DOMAIN session.dag_runs :
        /\ session.dag_runs[k].state = "running"
        /\ session.dag_runs[k].start_date # NoDate
        /\ session.dag_runs[k].start_date < now - StuckRunMinutes}

\* the task instance t belongs to the DAG run k
BelongsTo(t, k) == t.dag_id = k.dag_id /\ t.run_id = k.run_id

OldFailedBefore ==
    {k \in DOMAIN session.dag_runs :
        /\ session.dag_runs[k].state = "failed"
        /\ session.dag_runs[k].end_date # NoDate
        /\ session.dag_runs[k].end_date < now - Hours(OldRunHours)}

\* C26: cleanup_old_failed_runs deletes a DAG run exactly when it is FAILED
\* with an end_date before the cutoff, and a task instance exactly when it
\* belongs to such a run; a DAG run in any other state is never deleted.
C26_OnlyOldFailedRunsDeleted ==
    [][IsCleanupStep("cleanup_old_failed_runs") =>
          /\ DOMAIN session'.dag_runs = DOMAIN session.dag_runs \ OldFailedBefore
          /\ DOMAIN session'.task_instances =
                 {t \in DOMAIN session.task_instances :
                     ~\E k \in OldFailedBefore : BelongsTo(t, k)}
          /\ \A k \in DOMAIN session'.dag_runs :
                 session'.dag_runs[k] = session.dag_runs[k]]_vars

----------------------------------------------------------------------------
(* The counters of the stage loops *)

\* the number of records in the file a buffering stage has written
OutputRecords == Len(fs[output_path])

\* the counters match the lines consumed and the records held
CountersConserved ==
    stage \in StageNames =>
        /\ stats.processed + Rejected(stats) = line_num
        /\ Len(buffer) = stats.processed
        /\ (pc = "done" /\ outcome.kind = "returned") =>
               /\ stats.processed + Rejected(stats) = Len(fs[input_path])
               /\ stage \in BufferingStages => OutputRecords = stats.processed

\* C27: after every step of normalize_ads, enrich_ads and the loading of
\* rank_ads, processed + rejected is the number of lines consumed so far and
\* the buffer holds processed records; no step of the loop lowers a counter;
\* once the call has returned, processed + rejected is the number of input
\* lines and the file written by normalize_ads or enrich_ads holds processed
\* records.
C27_CounterConservation ==
    [][/\ CountersConserved'
       /\ (stage \in StageNames /\ pc = "loop") =>
              /\ stats'.processed >= stats.processed
              /\ Rejected(stats') >= Rejected(stats)]_vars

\* a call has consumed three lines, some processed and some rejected, and
\* has returned
C27_Witness ==
    /\ stage \in StageNames
    /\ pc = "done"
    /\ outcome.kind = "returned"
    /\ line_num = 3
    /\ stats.processed >= 1
    /\ Rejected(stats) >= 1

----------------------------------------------------------------------------
(* The order of the output of normalize_ads and enrich_ads *)

\* positions of the input lines the loop of stage s accepts
AcceptedPositions(s, file) ==
    {i \in 1..Len(file) : ProcessLine(s, file[i], now, detector).ok}

\* C28: once normalize_ads or enrich_ads has returned, its output holds one
\* record per accepted input line and the k-th record is the one made from
\* the k-th accepted line, so the records of two accepted lines stand in the
\* order of the lines whatever rejected lines lie between them.
C28_OrderPreserved ==
    (stage \in BufferingStages /\ pc = "done" /\ outcome.kind = "returned") =>
        LET file == fs[input_path]
            accepted == AcceptedPositions(stage, file)
            output == fs[output_path]
        IN  /\ Len(output) = Cardinality(accepted)
            /\ \A k \in 1..Len(output) :
                   k <= Cardinality(accepted) =>
                       output[k] = JsonDumps(ProcessLine(stage,
                           file[Nth(accepted, k)], now, detector).val)

\* the first and the third line of the input were accepted, the second was
\* rejected, and the output holds their two different records in that order
C28_Witness ==
    /\ stage \in BufferingStages
    /\ pc = "done"
    /\ outcome.kind = "returned"
    /\ AcceptedPositions(stage, fs[input_path]) = {1, 3}
    /\ Len(fs[output_path]) = 2
    /\ fs[output_path][1].val.v.ad_id = IdOfLine(stage, fs[input_path][1])
    /\ fs[output_path][2].val.v.ad_id = IdOfLine(stage, fs[input_path][3])
    /\ fs[output_path][1].val.v.ad_id # fs[output_path][2].val.v.ad_id

----------------------------------------------------------------------------
(* proxy_score without a media_type *)

KnownMediaTypes == {PyStr("both"), PyStr("video-only"), PyStr("image-only"),
                    PyStr("none")}

\* float(ad.get("duration_hours", 0.0)) in hundredths
HoursOf(ad) ==
    IF "duration_hours" \notin DOMAIN ad THEN 0
    ELSE IF ad["duration_hours"].t = "int" THEN 100 * ad["duration_hours"].v
    ELSE ad["duration_hours"].v

----------------------------------------------------------------------------
(* A stage call on a missing input file *)

\* the stage call in progress, or just made, has no input file
MissingInput == stage \in StageNames /\ input_path \notin DOMAIN fs

\* C30: the call of normalize_ads, enrich_ads or rank_ads on an input path
\* where no file exists, and every step after it, leaves the file system as
\* it was: no file appears at the output path, and a file that was there
\* keeps its content.
C30_FailedCallLeavesOutput ==
    [][(MissingInput' \/ MissingInput) =>
          /\ (output_path' \in DOMAIN fs') = (output_path' \in DOMAIN fs)
          /\ output_path' \in DOMAIN fs => fs'[output_path'] = fs[output_path']
          /\ fs' = fs]_vars

\* a stage has failed on its missing input while a file of an earlier run
\* stands at its output path with its content
C30_Witness ==
    /\ MissingInput
    /\ pc = "done"
    /\ outcome = Raised("FileNotFoundError")
    /\ output_path \in DOMAIN fs
    /\ fs[output_path] = StaleContent

====
